---- MODULE Spec2Model ----
(***************************************************************************)
(* Governance engine of agentcore_governance: the revocation registry      *)
(* (revocation.py), the integration registry (integrations.py) and its     *)
(* handlers (api/integration_handlers.py), the authorization store         *)
(* (authorization.py) with its update handler and the tool classification  *)
(* (api/authorization_handlers.py, classification.py), the audit events,   *)
(* their integrity hashes and the correlation chain reconstructor          *)
(* (evidence.py, integrity.py, api/evidence_handlers.py), the policy       *)
(* analyzer (analyzer.py) and the decision registry                        *)
(* (api/decision_handlers.py). Each store is a module-level dict or list   *)
(* mutated by synchronous functions that take no lock; each component has  *)
(* its own specification over the shared variables, and the concurrent     *)
(* specifications interleave the statements of calls made from threads.    *)
(*                                                                         *)
(* A dict keeps insertion order and its keys are fresh uuid4 values, so a  *)
(* registry is a sequence of records and a record's id is its position.    *)
(* An optional value (Python None, or a key that update() adds later) is   *)
(* None == <<>>, a present one is Some(v) == <<v>>.                        *)
(* Both registries start with _registry_file = None, so                    *)
(* _save_registry_to_file returns at its first line and is no part of the  *)
(* state.                                                                  *)
(***************************************************************************)
EXTENDS Integers, Sequences, FiniteSets, TLC

None == <<>>
Some(v) == <<v>>

(* ------------------------------ bounds --------------------------------- *)
MaxRevocations == 2      \* records the revocation registry may hold
MaxRevTicks == 1         \* advances of the clock in the revocation runs
MaxIntegrations == 1     \* records the integration registry may hold
MaxIntTicks == 2         \* advances of the clock in the integration runs
MaxApiIntegrations == 2  \* records the registry may hold in the handler runs
MaxChanges == 2          \* change records the authorization history may hold
MaxEvents == 3           \* events the event store may hold
MaxTime == 2             \* instants at which an event may be constructed
MaxValEvents == 1        \* events handed to validate_evidence_integrity
MaxChainEvents == 2      \* events of the workflows the event store may hold
MaxFields == 3           \* fields of a list handed to compute_integrity_hash
MaxDocs == 2             \* policy documents handed to compute_least_privilege_score
MaxWildcards == 6        \* wildcard actions a policy summary may list
MaxThreads == 2          \* threads that call into a store concurrently
MaxDecisions == 3        \* decisions the decision registry may hold
MaxLimit == 2            \* limit of a list_decisions query

(* --------------------------- program constants ------------------------- *)
DEFAULT_SLA_TARGET_SECONDS == 300
MicrosPerSecond == 1000000
MicrosPerMilli == 1000
MillisPerSecond == 1000
BaseScore == 100
WildcardActionPenalty == 5
WildcardResourcePenalty == 10
NarrowBonus == 10
ManyWildcardsThreshold == 5
HighActionCount == 100
ModerateActionCount == 50
LowScore == 50
ModerateScore == 80
HighRiskThreshold == 6
ModerateRiskThreshold == 3
RegistryLimit == 10000
DefaultLimit == 100

VARIABLES
    revocations,     \* revocation._revocations_registry
    rev_now,         \* datetime.now(UTC) as revocation.py reads it, in microseconds
    integrations,    \* integrations._integrations_registry
    int_now,         \* datetime.now(UTC) as integrations.py reads it, in days
    authorization_store,     \* authorization._authorization_store
    authorization_history,   \* authorization._authorization_history
    event_store,     \* evidence._event_store
    decision_registry,   \* api.decision_handlers._decision_registry
    threads,         \* the calls in progress in the threads of the process
    last             \* the call made by the last step and its outcome

rev_vars == <<revocations, rev_now>>
int_vars == <<integrations, int_now>>
auth_vars == <<authorization_store, authorization_history>>
ev_vars == <<event_store>>
vars == <<revocations, rev_now, integrations, int_now,
          authorization_store, authorization_history, event_store,
          decision_registry, threads, last>>

\* The trace ids new_correlation_context may draw (uuid4 texts).
CorrelationIds == {"c1", "c2"}

\* A thread that is in no call; pc is the statement a thread is to execute
\* next, call the arguments of its call, local its local variables and result
\* the outcome of its call once it is done.
IdleThread == [pc |-> "idle", call |-> None, local |-> None, result |-> "none"]

\* The outcome of one call: id is the record id it was given or created (0 for
\* none), arg the arguments a claim refers to (None elsewhere), err "none" when the call returned, else the
\* ValueError it raised, val the value returned (None for no value) and log the
\* line the call wrote to its logger ("" for no line).
Call(op, id, arg, err, val, log) ==
    [op |-> op, id |-> id, arg |-> arg, err |-> err, val |-> val, log |-> log]

(* ======================= revocation.py ================================= *)

valid_types == {"user", "integration", "tool", "agent", "principal"}
valid_scopes == {"user_access", "tool_access", "integration_access", "principal_assume"}

\* Payloads handed to create_revocation_request: records whose domain is the
\* set of keys present.
RevocationPayloads ==
    {[subjectType |-> "user", subjectId |-> "x", scope |-> "user_access"],
     [subjectType |-> "agent", subjectId |-> "y", scope |-> "tool_access",
      reason |-> "leak", initiatedBy |-> "sec"],
     [subjectType |-> "user", subjectId |-> "x"],
     [subjectType |-> "robot", subjectId |-> "x", scope |-> "user_access"],
     [subjectType |-> "user", subjectId |-> "x", scope |-> "all"]}

SubjectTypes == {"user", "agent"}
SubjectIds == {"x", "y"}
RevocationIds == 1..(MaxRevocations + 1)
Errors == {"boom"}

\* payload.get(key, default)
PayloadGet(payload, key, default) ==
    IF key \in DOMAIN payload THEN payload[key] ELSE default

\* The ValueError create_revocation_request raises for payload, or "none".
create_revocation_error(payload) ==
    IF {"subjectType", "subjectId", "scope"} \ DOMAIN payload # {}
        THEN "missing_field"
    ELSE IF payload.subjectType \notin valid_types THEN "invalid_subject_type"
    ELSE IF payload.scope \notin valid_scopes THEN "invalid_scope"
    ELSE "none"

\* The record create_revocation_request stores.
new_revocation(id, payload, timestamp) ==
    [id |-> id,
     subject_type |-> payload.subjectType,
     subject_id |-> payload.subjectId,
     scope |-> payload.scope,
     reason |-> PayloadGet(payload, "reason", ""),
     initiated_by |-> PayloadGet(payload, "initiatedBy", "unknown"),
     initiated_at |-> timestamp,
     propagated_at |-> None,
     status |-> "pending",
     sla_target_seconds |-> DEFAULT_SLA_TARGET_SECONDS,
     propagation_latency_ms |-> None,
     sla_met |-> None,
     sla_status |-> None,
     error |-> None]

\* The record after mark_revocation_propagated's update() at time propagated_at.
\* total_seconds() is the microsecond difference as a float and int() truncates
\* its product with 1000; for the latencies reached here (multiples of
\* RevClockStep) that float product truncates to the integer quotient below.
propagated_revocation(revocation, propagated_at) ==
    LET latency_us == propagated_at - revocation.initiated_at
        latency_ms == latency_us \div MicrosPerMilli
        sla_met == latency_us <= revocation.sla_target_seconds * MicrosPerSecond
    IN [revocation EXCEPT !.propagated_at = Some(propagated_at),
                          !.status = "complete",
                          !.propagation_latency_ms = Some(latency_ms),
                          !.sla_met = Some(sla_met),
                          !.sla_status = Some(IF sla_met THEN "met" ELSE "breached")]

\* The ValueError mark_revocation_propagated raises, or "none".
propagate_error(reg, revocation_id) ==
    IF revocation_id \notin DOMAIN reg THEN "not_found"
    ELSE IF reg[revocation_id].status = "complete" THEN "already_propagated"
    ELSE "none"

\* The record after mark_revocation_failed's update().
failed_revocation(revocation, error) ==
    [revocation EXCEPT !.status = "failed", !.error = Some(error)]

\* is_subject_revoked: the loop over the registry's values, from position i.
RECURSIVE subject_revoked_from(_, _, _, _)
subject_revoked_from(reg, i, subject_type, subject_id) ==
    IF i > Len(reg) THEN FALSE
    ELSE IF /\ reg[i].subject_type = subject_type
            /\ reg[i].subject_id = subject_id
            /\ reg[i].status \in {"pending", "complete"}
        THEN TRUE
    ELSE subject_revoked_from(reg, i + 1, subject_type, subject_id)

\* is_subject_revoked with the comparison of subject_type left out.
is_subject_revoked_any_type(reg, subject_type, subject_id) ==
    \E i \in DOMAIN reg :
        reg[i].subject_id = subject_id /\ reg[i].status \in {"pending", "complete"}

is_subject_revoked(reg, subject_type, subject_id) ==
    subject_revoked_from(reg, 1, subject_type, subject_id)

\* compute_sla_metrics: the positions of the records whose status is complete.
complete_revocations(reg) == {i \in DOMAIN reg : reg[i].status = "complete"}

\* sum(latencies), from position i of the registry.
RECURSIVE latency_sum(_, _)
latency_sum(reg, i) ==
    IF i > Len(reg) THEN 0
    ELSE (IF reg[i].status = "complete" THEN reg[i].propagation_latency_ms[1] ELSE 0)
         + latency_sum(reg, i + 1)

\* The dictionary compute_sla_metrics returns. The two float rates are kept as
\* the fraction <<numerator, denominator>> of the division the code makes
\* (0.0 is <<0, 1>>).
compute_sla_metrics(reg) ==
    LET complete == complete_revocations(reg)
        latencies == {reg[i].propagation_latency_ms[1] : i \in complete}
        met_count == Cardinality({i \in complete :
                        reg[i].propagation_latency_ms[1]
                            <= reg[i].sla_target_seconds * MillisPerSecond})
    IN IF complete = {}
         THEN [total_revocations |-> 0,
               sla_met |-> 0,
               sla_breached |-> 0,
               sla_met_percentage |-> <<0, 1>>,
               avg_latency_ms |-> 0,
               max_latency_ms |-> 0,
               min_latency_ms |-> 0]
         ELSE [total_revocations |-> Cardinality(complete),
               sla_met_count |-> met_count,
               sla_breached_count |-> Cardinality(complete) - met_count,
               sla_compliance_rate |-> <<met_count * 100, Cardinality(complete)>>,
               avg_latency_ms |-> latency_sum(reg, 1) \div Cardinality(complete),
               max_latency_ms |-> CHOOSE l \in latencies : \A k \in latencies : k <= l,
               min_latency_ms |-> CHOOSE l \in latencies : \A k \in latencies : l <= k]

(* ------------------------- revocation actions -------------------------- *)

CreateRevocationRequest(payload) ==
    /\ Len(revocations) < MaxRevocations
    /\ LET err == create_revocation_error(payload)
           id == Len(revocations) + 1
       IN IF err # "none"
            THEN /\ last' = Call("create_revocation_request", 0, payload, err, None, "")
                 /\ UNCHANGED revocations
            ELSE /\ revocations' = Append(revocations, new_revocation(id, payload, rev_now))
                 /\ last' = Call("create_revocation_request", id, payload, "none", Some(id),
                                 "Revocation created")
    /\ UNCHANGED <<decision_registry, threads, rev_now, int_vars, auth_vars, ev_vars>>

MarkRevocationPropagated(revocation_id) ==
    /\ LET err == propagate_error(revocations, revocation_id)
       IN IF err # "none"
            THEN /\ last' = Call("mark_revocation_propagated", revocation_id, None, err,
                                 None, "")
                 /\ UNCHANGED revocations
            ELSE /\ revocations' = [revocations EXCEPT ![revocation_id] =
                                        propagated_revocation(@, rev_now)]
                 /\ last' = Call("mark_revocation_propagated", revocation_id, None, "none",
                                 Some(revocations'[revocation_id]), "Revocation propagated")
    /\ UNCHANGED <<decision_registry, threads, rev_now, int_vars, auth_vars, ev_vars>>

MarkRevocationFailed(revocation_id, error) ==
    /\ IF revocation_id \notin DOMAIN revocations
         THEN /\ last' = Call("mark_revocation_failed", revocation_id, error, "not_found",
                              None, "")
              /\ UNCHANGED revocations
         ELSE /\ revocations' = [revocations EXCEPT ![revocation_id] =
                                     failed_revocation(@, error)]
              /\ last' = Call("mark_revocation_failed", revocation_id, error, "none",
                              Some(revocations'[revocation_id]), "Revocation failed")
    /\ UNCHANGED <<decision_registry, threads, rev_now, int_vars, auth_vars, ev_vars>>

IsSubjectRevoked(subject_type, subject_id) ==
    /\ last' = Call("is_subject_revoked", 0, <<subject_type, subject_id>>, "none",
                    Some(is_subject_revoked(revocations, subject_type, subject_id)), "")
    /\ UNCHANGED <<decision_registry, threads, rev_vars, int_vars, auth_vars, ev_vars>>

ComputeSlaMetrics ==
    /\ last' = Call("compute_sla_metrics", 0, None, "none",
                    Some(compute_sla_metrics(revocations)), "")
    /\ UNCHANGED <<decision_registry, threads, rev_vars, int_vars, auth_vars, ev_vars>>

\* emit_sla_metric reads the key sla_compliance_rate of the metrics: a KeyError
\* when compute_sla_metrics took its branch for no complete record.
EmitSlaMetric ==
    /\ LET metrics == compute_sla_metrics(revocations)
       IN IF "sla_compliance_rate" \notin DOMAIN metrics
            THEN last' = Call("emit_sla_metric", 0, None, "KeyError", None, "")
            ELSE last' = Call("emit_sla_metric", 0, None, "none",
                              Some([metric_name |-> "RevocationSLACompliance",
                                    value |-> metrics.sla_compliance_rate]),
                              "SLA metric emitted")
    /\ UNCHANGED <<decision_registry, threads, rev_vars, int_vars, auth_vars, ev_vars>>

\* Time passes between two calls: the SLA target and half a millisecond more,
\* so that two calls are either at the same instant or just past the target.
RevClockStep == DEFAULT_SLA_TARGET_SECONDS * MicrosPerSecond + MicrosPerMilli \div 2

RevTick ==
    /\ rev_now < MaxRevTicks * RevClockStep
    /\ rev_now' = rev_now + RevClockStep
    /\ last' = Call("tick", 0, None, "none", None, "")
    /\ UNCHANGED <<decision_registry, threads, revocations, int_vars, auth_vars, ev_vars>>

Init ==
    /\ revocations = <<>>
    /\ rev_now = 0
    /\ integrations = <<>>
    /\ int_now = 0
    /\ authorization_store = <<>>
    /\ authorization_history = <<>>
    /\ event_store = <<>>
    /\ decision_registry = <<>>
    /\ threads = [t \in 1..MaxThreads |-> IdleThread]
    /\ last = Call("init", 0, None, "none", None, "")

RevNext ==
    \/ \E payload \in RevocationPayloads : CreateRevocationRequest(payload)
    \/ \E id \in RevocationIds : MarkRevocationPropagated(id)
    \/ \E id \in RevocationIds, error \in Errors : MarkRevocationFailed(id, error)
    \/ \E t \in SubjectTypes, s \in SubjectIds : IsSubjectRevoked(t, s)
    \/ ComputeSlaMetrics
    \/ EmitSlaMetric
    \/ RevTick

RevSpec == Init /\ [][RevNext]_vars

(* ------------------------- revocation claims --------------------------- *)

RevTerminal == {"complete", "failed"}

\* C1: mark_revocation_propagated called on a record whose status is complete
\* or failed raises an error and leaves the registry as it was.
C1_PropagateOnlyFromPending ==
    [][(/\ last'.op = "mark_revocation_propagated"
        /\ last'.id \in DOMAIN revocations
        /\ revocations[last'.id].status \in RevTerminal)
       => (last'.err # "none" /\ revocations' = revocations)]_vars

\* C2: a record whose status is complete or failed is the same record after
\* every step.
C2_TerminalImmutable ==
    [][\A i \in DOMAIN revocations :
          revocations[i].status \in RevTerminal => revocations'[i] = revocations[i]]_vars

\* C3: the subject of a record that mark_revocation_propagated completed is
\* revoked after every later step (stated on one step: complete now, revoked next).
C3_AccessStaysBlocked ==
    [][\A i \in DOMAIN revocations :
          revocations[i].status = "complete"
          => is_subject_revoked(revocations', revocations[i].subject_type,
                                revocations[i].subject_id)]_vars

\* A record of the subject whose status is pending or complete exists.
HasActiveRevocation(reg, subject_type, subject_id) ==
    \E i \in DOMAIN reg : /\ reg[i].subject_type = subject_type
                           /\ reg[i].subject_id = subject_id
                           /\ reg[i].status \in {"pending", "complete"}

\* C4: is_subject_revoked(t, s) is true iff a record of subject (t, s) has
\* status pending or complete; it is true right after create_revocation_request,
\* and the value the query returns is that one.
C4_RevokedIffActiveRecord ==
    /\ \A t \in SubjectTypes, s \in SubjectIds :
          is_subject_revoked(revocations, t, s) <=> HasActiveRevocation(revocations, t, s)
    /\ (last.op = "create_revocation_request" /\ last.err = "none")
          => is_subject_revoked(revocations, last.arg.subjectType, last.arg.subjectId)
    /\ last.op = "is_subject_revoked"
          => last.val = Some(HasActiveRevocation(revocations, last.arg[1], last.arg[2]))

\* C4's case: the query answers FALSE for user x, whose only record failed,
\* while agent y holds a pending record.
C4_Witness ==
    /\ last.op = "is_subject_revoked"
    /\ last.arg = <<"user", "x">>
    /\ last.val = Some(FALSE)
    /\ \E i \in DOMAIN revocations :
          /\ revocations[i].subject_type = "user"
          /\ revocations[i].subject_id = "x"
          /\ revocations[i].status = "failed"
    /\ \E i \in DOMAIN revocations :
          /\ revocations[i].subject_type = "agent"
          /\ revocations[i].status = "pending"

\* C13: a record that mark_revocation_propagated completed has
\* propagation_latency_ms >= 0 and sla_met equal to
\* (propagation_latency_ms <= sla_target_seconds * 1000).
C13_SlaMetMatchesLatency ==
    \A i \in DOMAIN revocations :
        revocations[i].status = "complete"
        => /\ revocations[i].propagation_latency_ms[1] >= 0
           /\ revocations[i].sla_met[1] =
                 (revocations[i].propagation_latency_ms[1]
                     <= revocations[i].sla_target_seconds * MillisPerSecond)

\* The keys of the result of compute_sla_metrics over one complete record or more.
SlaMetricsFields ==
    {"total_revocations", "sla_met_count", "sla_breached_count", "sla_compliance_rate",
     "avg_latency_ms", "max_latency_ms", "min_latency_ms"}

\* C14: compute_sla_metrics returns the same fields whether or not a record is
\* complete; its total is the number of complete records, met and breached add
\* up to the total, and met counts the complete records whose stored sla_met is
\* true, so pending and failed records count for nothing.
C14_MetricsOverCompleteOnly ==
    last.op = "compute_sla_metrics"
    => LET metrics == last.val[1]
           complete == {i \in DOMAIN revocations : revocations[i].status = "complete"}
       IN /\ DOMAIN metrics = SlaMetricsFields
          /\ metrics.total_revocations = Cardinality(complete)
          /\ metrics.sla_met_count + metrics.sla_breached_count = metrics.total_revocations
          /\ metrics.sla_met_count =
                Cardinality({i \in complete : revocations[i].sla_met = Some(TRUE)})

(* ======================= integrations.py =============================== *)

\* Payloads handed to request_integration.
IntegrationPayloads ==
    {[name |-> "crm", justification |-> "sync", requestedTargets |-> <<"Data", "data">>],
     [name |-> "crm", justification |-> "sync"]}

\* Target lists an approver may pass, targets a caller may ask for, and the
\* other arguments of the calls.
ApprovedTargetLists == {<<>>, <<"Data">>, <<"Data", "other">>}
CheckTargets == {"Data", "data", "other"}
ExpiryDays == {None, Some(0), Some(1)}
Approvers == {"admin"}
RevokeReasons == {None, Some("abuse")}
IntegrationIds == 1..(MaxIntegrations + 1)

\* The ValueError request_integration raises for payload, or "none".
request_integration_error(payload) ==
    IF {"name", "justification", "requestedTargets"} \ DOMAIN payload # {}
        THEN "missing_field"
    ELSE "none"

\* The record request_integration stores. Its requested_at (the time of the
\* request) is written here and read or written by no other function of the
\* module, so the record of the model leaves it out; revoked_at and
\* revocation_reason are the keys revoke_integration adds.
new_integration(id, payload, timestamp) ==
    [id |-> id,
     name |-> payload.name,
     justification |-> payload.justification,
     requested_targets |-> payload.requestedTargets,
     approved_targets |-> <<>>,
     approved_by |-> None,
     approved_at |-> None,
     expires_at |-> None,
     status |-> "pending",
     revoked_at |-> None,
     revocation_reason |-> None]

\* approve_integration that refuses only the terminal states.
approve_integration_error_terminal_only(reg, integration_id) ==
    IF integration_id \notin DOMAIN reg THEN "not_found"
    ELSE IF reg[integration_id].status \in {"expired", "revoked"} THEN "not_pending"
    ELSE "none"

\* The ValueError approve_integration raises, or "none".
approve_integration_error(reg, integration_id) ==
    IF integration_id \notin DOMAIN reg THEN "not_found"
    ELSE IF reg[integration_id].status # "pending" THEN "not_pending"
    ELSE "none"

\* The record after approve_integration's update() at time timestamp:
\* expires_at is set only for a truthy, positive expiry_days.
approved_integration(integration, approved_targets, expiry_days, approved_by, timestamp) ==
    LET expires_at == IF expiry_days # None /\ expiry_days[1] # 0 /\ expiry_days[1] > 0
                        THEN Some(timestamp + expiry_days[1])
                        ELSE None
    IN [integration EXCEPT !.approved_targets = approved_targets,
                           !.approved_by = Some(approved_by),
                           !.approved_at = Some(timestamp),
                           !.expires_at = expires_at,
                           !.status = "active"]

\* target in approved_targets: Python's scan of the list with ==.
RECURSIVE list_contains(_, _, _)
list_contains(list, i, target) ==
    IF i > Len(list) THEN FALSE
    ELSE IF list[i] = target THEN TRUE
    ELSE list_contains(list, i + 1, target)

\* check_target_authorized reaches its "Mark as expired" branch.
check_expires(reg, integration_id, now) ==
    /\ integration_id \in DOMAIN reg
    /\ reg[integration_id].status = "active"
    /\ reg[integration_id].expires_at # None
    /\ now > reg[integration_id].expires_at[1]

\* Lower-case form of a target.
Lower(target) == IF target = "Data" THEN "data" ELSE target

\* target in approved_targets, comparing without regard to case.
RECURSIVE list_contains_casefold(_, _, _)
list_contains_casefold(list, i, target) ==
    IF i > Len(list) THEN FALSE
    ELSE IF Lower(list[i]) = Lower(target) THEN TRUE
    ELSE list_contains_casefold(list, i + 1, target)

\* check_target_authorized that matches targets without regard to case.
check_target_result_casefold(reg, integration_id, target, now) ==
    IF integration_id \notin DOMAIN reg THEN FALSE
    ELSE IF reg[integration_id].status # "active" THEN FALSE
    ELSE IF check_expires(reg, integration_id, now) THEN FALSE
    ELSE list_contains_casefold(reg[integration_id].approved_targets, 1, target)

\* check_target_authorized that never looks at the status.
check_target_result_no_status(reg, integration_id, target, now) ==
    IF integration_id \notin DOMAIN reg THEN FALSE
    ELSE IF /\ reg[integration_id].expires_at # None
            /\ now > reg[integration_id].expires_at[1] THEN FALSE
    ELSE list_contains(reg[integration_id].approved_targets, 1, target)

\* The value check_target_authorized returns.
check_target_result(reg, integration_id, target, now) ==
    IF integration_id \notin DOMAIN reg THEN FALSE
    ELSE IF reg[integration_id].status # "active" THEN FALSE
    ELSE IF check_expires(reg, integration_id, now) THEN FALSE
    ELSE list_contains(reg[integration_id].approved_targets, 1, target)

\* check_target_authorized that denies an expired integration without
\* writing the status.
check_target_registry_no_write(reg, integration_id, now) == reg

\* The registry check_target_authorized leaves.
check_target_registry(reg, integration_id, now) ==
    IF check_expires(reg, integration_id, now)
        THEN [reg EXCEPT ![integration_id].status = "expired"]
        ELSE reg

\* mark_expired_integrations that also takes the record expiring right now.
is_due_at_expiry(integration, now) ==
    /\ integration.status = "active"
    /\ integration.expires_at # None
    /\ now >= integration.expires_at[1]

\* The records mark_expired_integrations transitions.
is_due(integration, now) ==
    /\ integration.status = "active"
    /\ integration.expires_at # None
    /\ now > integration.expires_at[1]

\* The registry mark_expired_integrations leaves.
expired_registry(reg, now) ==
    [i \in DOMAIN reg |-> IF is_due(reg[i], now)
                            THEN [reg[i] EXCEPT !.status = "expired"]
                            ELSE reg[i]]

\* The record after revoke_integration at time timestamp: the reason is
\* written only when it is truthy.
revoked_integration(integration, reason, timestamp) ==
    [integration EXCEPT !.status = "revoked",
                        !.revoked_at = Some(timestamp),
                        !.revocation_reason = IF reason # None /\ reason[1] # ""
                                                THEN reason ELSE @]

(* ------------------------- integration actions ------------------------- *)

RequestIntegration(payload) ==
    /\ Len(integrations) < MaxIntegrations
    /\ LET err == request_integration_error(payload)
           id == Len(integrations) + 1
       IN IF err # "none"
            THEN /\ last' = Call("request_integration", 0, None, err, None, "")
                 /\ UNCHANGED integrations
            ELSE /\ integrations' = Append(integrations, new_integration(id, payload, int_now))
                 /\ last' = Call("request_integration", id, None, "none", Some(id),
                                 "Integration request created")
    /\ UNCHANGED <<decision_registry, threads, int_now, rev_vars, auth_vars, ev_vars>>

\* The arguments besides the id are drawn after the two checks that raise:
\* a call that raises has the same outcome for all of them.
ApproveIntegration(integration_id) ==
    /\ LET err == approve_integration_error(integrations, integration_id)
       IN IF err # "none"
            THEN /\ last' = Call("approve_integration", integration_id, None, err, None, "")
                 /\ UNCHANGED integrations
            ELSE \E approved_targets \in ApprovedTargetLists, expiry_days \in ExpiryDays,
                    approved_by \in Approvers :
                 /\ integrations' = [integrations EXCEPT ![integration_id] =
                        approved_integration(@, approved_targets, expiry_days,
                                             approved_by, int_now)]
                 /\ last' = Call("approve_integration", integration_id, None, "none", None,
                                 "Integration approved")
    /\ UNCHANGED <<decision_registry, threads, int_now, rev_vars, auth_vars, ev_vars>>

CheckTargetAuthorized(integration_id, target) ==
    /\ integrations' = check_target_registry(integrations, integration_id, int_now)
    /\ last' = Call("check_target_authorized", integration_id, target, "none",
                    Some(check_target_result(integrations, integration_id, target, int_now)),
                    IF check_expires(integrations, integration_id, int_now)
                        THEN "Integration expired" ELSE "")
    /\ UNCHANGED <<decision_registry, threads, int_now, rev_vars, auth_vars, ev_vars>>

MarkExpiredIntegrations ==
    /\ integrations' = expired_registry(integrations, int_now)
    /\ last' = Call("mark_expired_integrations", 0, None, "none",
                    Some(Cardinality({i \in DOMAIN integrations :
                                         is_due(integrations[i], int_now)})),
                    IF \E i \in DOMAIN integrations : is_due(integrations[i], int_now)
                        THEN "Marked integration as expired" ELSE "")
    /\ UNCHANGED <<decision_registry, threads, int_now, rev_vars, auth_vars, ev_vars>>

RevokeIntegration(integration_id) ==
    /\ IF integration_id \notin DOMAIN integrations
         THEN /\ last' = Call("revoke_integration", integration_id, None, "not_found",
                              None, "")
              /\ UNCHANGED integrations
         ELSE \E reason \in RevokeReasons :
              /\ integrations' = [integrations EXCEPT ![integration_id] =
                                     revoked_integration(@, reason, int_now)]
              /\ last' = Call("revoke_integration", integration_id, None, "none", None,
                              "Integration revoked")
    /\ UNCHANGED <<decision_registry, threads, int_now, rev_vars, auth_vars, ev_vars>>

\* A day passes between two calls.
IntTick ==
    /\ int_now < MaxIntTicks
    /\ int_now' = int_now + 1
    /\ last' = Call("tick", 0, None, "none", None, "")
    /\ UNCHANGED <<decision_registry, threads, integrations, rev_vars, auth_vars, ev_vars>>

IntNext ==
    \/ \E payload \in IntegrationPayloads : RequestIntegration(payload)
    \/ \E id \in IntegrationIds : ApproveIntegration(id)
    \/ \E id \in IntegrationIds, target \in CheckTargets : CheckTargetAuthorized(id, target)
    \/ MarkExpiredIntegrations
    \/ \E id \in IntegrationIds : RevokeIntegration(id)
    \/ IntTick

IntSpec == Init /\ [][IntNext]_vars

(* =================== api/integration_handlers.py ======================= *)

\* Payloads handed to handle_integration_request: those of request_integration
\* and one whose list of targets is empty.
RequestPayloads ==
    IntegrationPayloads \cup
    {[name |-> "crm", justification |-> "sync", requestedTargets |-> <<>>]}

\* Payloads handed to handle_integration_approval.
ApprovalPayloads ==
    {[approvedTargets |-> <<"Data">>],
     [approvedTargets |-> <<"Data">>, expiryDays |-> 1],
     [approvedTargets |-> <<"Data">>, expiryDays |-> 0],
     [approvedTargets |-> <<"Data">>, expiryDays |-> -1],
     [expiryDays |-> 0]}

\* payload.get("expiryDays")
payload_expiry_days(payload) ==
    IF "expiryDays" \in DOMAIN payload THEN Some(payload.expiryDays) ELSE None

\* The ValueError handle_integration_request raises before it calls
\* request_integration, or "none".
handle_request_error(payload) ==
    IF {"name", "justification", "requestedTargets"} \ DOMAIN payload # {}
        THEN "missing_field"
    ELSE IF payload.requestedTargets = <<>> THEN "requestedTargets cannot be empty"
    ELSE "none"

\* The handler's test of expiryDays that lets zero through.
invalid_expiry_days_negative_only(expiry_days) ==
    expiry_days # None /\ expiry_days[1] < 0

\* handle_integration_approval's test of expiryDays (an integer here).
invalid_expiry_days(expiry_days) ==
    expiry_days # None /\ expiry_days[1] <= 0

\* The ValueError handle_integration_approval raises, its own checks first and
\* approve_integration's after them, or "none".
handle_approval_error(reg, integration_id, payload) ==
    IF "approvedTargets" \notin DOMAIN payload THEN "missing_field"
    ELSE IF invalid_expiry_days(payload_expiry_days(payload))
        THEN "expiryDays must be a positive integer"
    ELSE IF integration_id \notin DOMAIN reg THEN "not_found"
    ELSE approve_integration_error(reg, integration_id)

HandleIntegrationRequest(payload) ==
    /\ Len(integrations) < MaxApiIntegrations
    /\ LET err == IF handle_request_error(payload) # "none"
                    THEN handle_request_error(payload)
                    ELSE request_integration_error(payload)
           id == Len(integrations) + 1
       IN IF err # "none"
            THEN /\ last' = Call("handle_integration_request", 0, None, err, None,
                                 "Integration request validation failed")
                 /\ UNCHANGED integrations
            ELSE \E corr_id \in CorrelationIds :
                 /\ integrations' = Append(integrations, new_integration(id, payload, int_now))
                 /\ last' = Call("handle_integration_request", id, None, "none",
                                 Some([status |-> "pending", correlation_id |-> corr_id]),
                                 "Integration request audit event")
    /\ UNCHANGED <<decision_registry, threads, int_now, rev_vars, auth_vars, ev_vars>>

HandleIntegrationApproval(integration_id, payload) ==
    /\ LET err == handle_approval_error(integrations, integration_id, payload)
       IN IF err # "none"
            THEN /\ last' = Call("handle_integration_approval", integration_id, payload, err,
                                 None, "Integration approval validation failed")
                 /\ UNCHANGED integrations
            ELSE \E approved_by \in Approvers, corr_id \in CorrelationIds :
                 /\ integrations' = [integrations EXCEPT ![integration_id] =
                        approved_integration(@, payload.approvedTargets,
                                             payload_expiry_days(payload),
                                             approved_by, int_now)]
                 /\ last' = Call("handle_integration_approval", integration_id, payload,
                                 "none",
                                 Some([status |-> "active",
                                       expires_at |-> integrations'[integration_id].expires_at,
                                       correlation_id |-> corr_id]),
                                 "Integration approval audit event")
    /\ UNCHANGED <<decision_registry, threads, int_now, rev_vars, auth_vars, ev_vars>>

ApiNext ==
    \/ \E payload \in RequestPayloads : HandleIntegrationRequest(payload)
    \/ \E id \in IntegrationIds, payload \in ApprovalPayloads :
          HandleIntegrationApproval(id, payload)
    \/ MarkExpiredIntegrations
    \/ IntTick

ApiSpec == Init /\ [][ApiNext]_vars

(* ------------------------- integration claims -------------------------- *)

IntTerminal == {"expired", "revoked"}

\* The elements of a list.
Elements(list) == {list[k] : k \in DOMAIN list}

\* The fields approve_integration writes.
Approval(integration) ==
    <<integration.approved_targets, integration.approved_by,
      integration.approved_at, integration.expires_at>>

\* C5: approve_integration on a record that is not pending raises the
\* not-in-pending-status error and leaves the registry as it was; on a pending
\* record it succeeds; a record that left pending never returns to it and its
\* approval fields never change again, so one approve at most succeeds per id.
C5_ApproveOnlyFromPending ==
    [][/\ (last'.op = "approve_integration" /\ last'.id \in DOMAIN integrations)
            => IF integrations[last'.id].status = "pending"
                 THEN last'.err = "none" /\ integrations'[last'.id].status = "active"
                 ELSE last'.err = "not_pending" /\ integrations' = integrations
       /\ \A i \in DOMAIN integrations :
            integrations[i].status # "pending"
            => /\ integrations'[i].status # "pending"
               /\ Approval(integrations'[i]) = Approval(integrations[i])]_vars

\* C5's case: a second approve_integration was refused on an active record
\* that keeps the targets of the first.
C5_Witness ==
    /\ last.op = "approve_integration"
    /\ last.err = "not_pending"
    /\ last.id \in DOMAIN integrations
    /\ integrations[last.id].status = "active"
    /\ integrations[last.id].approved_targets = <<"Data">>

\* C6: a record whose status is expired or revoked has one of these two
\* statuses after every step, and check_target_authorized on it returns FALSE.
C6_TerminalNeverReverts ==
    [][\A i \in DOMAIN integrations :
          integrations[i].status \in IntTerminal
          => /\ integrations'[i].status \in IntTerminal
             /\ (last'.op = "check_target_authorized" /\ last'.id = i)
                   => last'.val = Some(FALSE)]_vars

\* C6's case: check_target_authorized was refused for an approved target of a
\* revoked record that has no expiry.
C6_Witness ==
    /\ last.op = "check_target_authorized"
    /\ last.id \in DOMAIN integrations
    /\ integrations[last.id].status = "revoked"
    /\ integrations[last.id].expires_at = None
    /\ last.arg \in Elements(integrations[last.id].approved_targets)
    /\ last.val = Some(FALSE)

\* C7: revoke_integration on a record whose status is expired or revoked
\* leaves the record as it was.
C7_RevokeOnlyFromNonTerminal ==
    [][(/\ last'.op = "revoke_integration"
        /\ last'.id \in DOMAIN integrations
        /\ integrations[last'.id].status \in IntTerminal)
       => integrations'[last'.id] = integrations[last'.id]]_vars

\* The record is active and its expires_at is earlier than now.
PastExpiry(reg, integration_id, now) ==
    /\ integration_id \in DOMAIN reg
    /\ reg[integration_id].status = "active"
    /\ reg[integration_id].expires_at # None
    /\ reg[integration_id].expires_at[1] < now

\* C8: check_target_authorized on an active record past its expires_at returns
\* FALSE and leaves that record expired and the rest of the registry unchanged;
\* in every other case it leaves the registry unchanged.
C8_LazyExpiryOnlySideEffect ==
    [][last'.op = "check_target_authorized"
       => IF PastExpiry(integrations, last'.id, int_now)
            THEN /\ last'.val = Some(FALSE)
                 /\ integrations'[last'.id].status = "expired"
                 /\ integrations' = [integrations EXCEPT ![last'.id].status = "expired"]
            ELSE integrations' = integrations]_vars

\* C8's case: the check of an approved target made the lazy transition.
C8_Witness ==
    /\ last.op = "check_target_authorized"
    /\ last.log = "Integration expired"
    /\ last.id \in DOMAIN integrations
    /\ integrations[last.id].status = "expired"
    /\ last.arg \in Elements(integrations[last.id].approved_targets)
    /\ last.val = Some(FALSE)

\* The record exists, is active, is not past its expiry and lists the target.
Authorized(reg, integration_id, target, now) ==
    /\ integration_id \in DOMAIN reg
    /\ reg[integration_id].status = "active"
    /\ \/ reg[integration_id].expires_at = None
       \/ ~(now > reg[integration_id].expires_at[1])
    /\ target \in Elements(reg[integration_id].approved_targets)

\* C9: check_target_authorized(id, target) returns TRUE iff, when it is called,
\* the record exists, is active, is not past its expires_at and target is one
\* of its approved_targets, compared as exact strings; else it returns FALSE.
C9_AuthorizedIff ==
    [][last'.op = "check_target_authorized"
       => last'.val = Some(Authorized(integrations, last'.id, last'.arg, int_now))]_vars

\* C9's case: "data" was refused on an active record that approves only "Data",
\* a strict part of the requested targets.
C9_Witness ==
    /\ last.op = "check_target_authorized"
    /\ last.arg = "data"
    /\ last.val = Some(FALSE)
    /\ last.id \in DOMAIN integrations
    /\ integrations[last.id].status = "active"
    /\ integrations[last.id].approved_targets = <<"Data">>
    /\ "data" \in Elements(integrations[last.id].requested_targets)

\* C10: a target check_target_authorized accepts is one of the record's
\* requested_targets.
C10_AuthorizedImpliesRequested ==
    \A i \in DOMAIN integrations, target \in CheckTargets :
        check_target_result(integrations, i, target, int_now)
        => target \in Elements(integrations[i].requested_targets)

DictGet(dict, key, default) == IF key \in DOMAIN dict THEN dict[key] ELSE default

DictSet(dict, key, value) ==
    [k \in DOMAIN dict \cup {key} |-> IF k = key THEN value ELSE dict[k]]

AgentIds == {"a", "b"}

\* The tool ids, in the order sorted() gives them.
ToolIds == <<"db", "t1", "t2">>

\* Calls of set_authorized_tools and update_agent_tools: the tools, a list that
\* may name a tool twice, and the reason.
UpdateRequests ==
    {[tools |-> <<>>, reason |-> None],
     [tools |-> <<"t1">>, reason |-> Some("rotation")],
     [tools |-> <<"t2", "t1">>, reason |-> None],
     [tools |-> <<"t1", "t1">>, reason |-> None],
     [tools |-> <<"t1", "db">>, reason |-> None]}

\* Mappings handed to refresh_authorization_store.
RefreshMappings == {[a |-> <<"t2">>]}

\* sorted(tools), tools a set of tool ids.
sorted(tools) == SelectSeq(ToolIds, LAMBDA t : t \in tools)

\* The list get_authorized_tools returns.
get_authorized_tools(store, agent_id) == DictGet(store, agent_id, <<>>)

\* check_tool_authorized that looks the tool up in the lists of all agents.
check_tool_authorized_any_agent(store, agent_id, tool_id) ==
    \E agent \in DOMAIN store : list_contains(store[agent], 1, tool_id)

\* The value check_tool_authorized returns.
check_tool_authorized(store, agent_id, tool_id) ==
    list_contains(get_authorized_tools(store, agent_id), 1, tool_id)

\* set_authorized_tools that reports every tool of the new list as added.
change_record_added_all(store, agent_id, tool_list, reason) ==
    LET previous_tools == DictGet(store, agent_id, <<>>)
        previous_set == {previous_tools[k] : k \in DOMAIN previous_tools}
        new_set == {tool_list[k] : k \in DOMAIN tool_list}
    IN [agent_id |-> agent_id,
        added |-> sorted(new_set),
        removed |-> sorted(previous_set \ new_set),
        unchanged |-> sorted(previous_set \cap new_set),
        reason |-> reason,
        total_before |-> Len(previous_tools),
        total_after |-> Len(tool_list)]

\* The change record set_authorized_tools builds and returns. Its timestamp is
\* read by no function of the module and is left out.
change_record(store, agent_id, tool_list, reason) ==
    LET previous_tools == DictGet(store, agent_id, <<>>)
        previous_set == {previous_tools[k] : k \in DOMAIN previous_tools}
        new_set == {tool_list[k] : k \in DOMAIN tool_list}
    IN [agent_id |-> agent_id,
        added |-> sorted(new_set \ previous_set),
        removed |-> sorted(previous_set \ new_set),
        unchanged |-> sorted(previous_set \cap new_set),
        reason |-> reason,
        total_before |-> Len(previous_tools),
        total_after |-> Len(tool_list)]

\* The history set_authorized_tools leaves.
appended_history(history, agent_id, record) ==
    DictSet(history, agent_id, Append(DictGet(history, agent_id, <<>>), record))

\* The number of change records in the history.
RECURSIVE total_changes(_, _)
total_changes(history, agents) ==
    IF agents = {} THEN 0
    ELSE LET agent == CHOOSE x \in agents : TRUE
         IN Len(DictGet(history, agent, <<>>)) + total_changes(history, agents \ {agent})

(* ------------------------ authorization actions ------------------------ *)

SetAuthorizedTools(agent_id, request) ==
    /\ total_changes(authorization_history, AgentIds) < MaxChanges
    /\ LET record == change_record(authorization_store, agent_id, request.tools,
                                   request.reason)
       IN /\ authorization_store' = DictSet(authorization_store, agent_id, request.tools)
          /\ authorization_history' = appended_history(authorization_history, agent_id,
                                                       record)
          /\ last' = Call("set_authorized_tools", 0,
                          [agent_id |-> agent_id, tools |-> request.tools],
                          "none", Some(record), "Authorization updated")
    /\ UNCHANGED <<decision_registry, threads, rev_vars, int_vars, ev_vars>>

GetAuthorizedTools(agent_id) ==
    /\ last' = Call("get_authorized_tools", 0, [agent_id |-> agent_id], "none",
                    Some(get_authorized_tools(authorization_store, agent_id)), "")
    /\ UNCHANGED <<decision_registry, threads, rev_vars, int_vars, auth_vars, ev_vars>>

CheckToolAuthorized(agent_id, tool_id) ==
    /\ last' = Call("check_tool_authorized", 0,
                    [agent_id |-> agent_id, tool_id |-> tool_id], "none",
                    Some(check_tool_authorized(authorization_store, agent_id, tool_id)), "")
    /\ UNCHANGED <<decision_registry, threads, rev_vars, int_vars, auth_vars, ev_vars>>

RefreshAuthorizationStore(mappings) ==
    /\ authorization_store' = mappings
    /\ last' = Call("refresh_authorization_store", 0, None, "none", None,
                    "Authorization store refreshed")
    /\ UNCHANGED <<decision_registry, threads, rev_vars, int_vars, authorization_history, ev_vars>>

(* ================ classification.py, api/authorization_handlers.py ===== *)

\* The registry load_tool_classifications returns: the tools of the YAML file.
ToolClassifications ==
    <<[id |-> "db", classification |-> "SENSITIVE", owner |-> "security-team"],
      [id |-> "t1", classification |-> "LOW", owner |-> "platform"]>>

\* The approval_records handed to update_agent_tools: none, or one for db.
ApprovalRecords == {<<>>, [db |-> [approved_by |-> "security-admin"]]}

\* The switches of a call of update_agent_tools: validate_classification and
\* approval_records, which the handler reads only when it validates.
UpdateOptions ==
    {[validate_classification |-> TRUE, approval_records |-> records] :
        records \in ApprovalRecords}
    \cup {[validate_classification |-> FALSE, approval_records |-> <<>>]}

\* get_tool_classification: the first record of the registry with the id, from
\* position i, or None.
RECURSIVE get_tool_classification(_, _, _)
get_tool_classification(tool_id, registry, i) ==
    IF i > Len(registry) THEN None
    ELSE IF registry[i].id = tool_id THEN Some(registry[i])
    ELSE get_tool_classification(tool_id, registry, i + 1)

requires_approval(tool_id, registry) ==
    LET tool == get_tool_classification(tool_id, registry, 1)
    IN tool # None /\ tool[1].classification = "SENSITIVE"

\* validate_tool_authorization: <<is_valid, reason>>. A tool that requires
\* approval is valid only with an approval record.
validate_tool_authorization(tool_id, approval_record, registry) ==
    IF requires_approval(tool_id, registry) /\ approval_record = None
        THEN <<FALSE, "requires approval">>
        ELSE <<TRUE, "">>

\* update_agent_tools that validates the first tool of the request only.
validation_errors_first_tool_only(tools, i, validate_classification, approval_records) ==
    IF ~validate_classification \/ tools = <<>> THEN <<>>
    ELSE LET validation == validate_tool_authorization(
                               tools[1],
                               IF tools[1] \in DOMAIN approval_records
                                   THEN Some(approval_records[tools[1]]) ELSE None,
                               ToolClassifications)
         IN IF validation[1] THEN <<>>
            ELSE <<[tool_id |-> tools[1], reason |-> validation[2]]>>

\* The validation_errors update_agent_tools collects over tools, from position i.
RECURSIVE validation_errors(_, _, _, _)
validation_errors(tools, i, validate_classification, approval_records) ==
    IF ~validate_classification \/ i > Len(tools) THEN <<>>
    ELSE LET validation == validate_tool_authorization(
                               tools[i],
                               IF tools[i] \in DOMAIN approval_records
                                   THEN Some(approval_records[tools[i]]) ELSE None,
                               ToolClassifications)
             rest == validation_errors(tools, i + 1, validate_classification,
                                       approval_records)
         IN IF validation[1] THEN rest
            ELSE <<[tool_id |-> tools[i], reason |-> validation[2]]>> \o rest

\* The audit events update_agent_tools builds from a change record: allow for
\* each added tool, then deny for each removed one.
audit_events(record) ==
    [k \in DOMAIN record.added |-> [tool_id |-> record.added[k], effect |-> "allow"]]
    \o [k \in DOMAIN record.removed |-> [tool_id |-> record.removed[k], effect |-> "deny"]]

UpdateAgentTools(agent_id, request, validate_classification, approval_records) ==
    /\ LET errors == validation_errors(request.tools, 1, validate_classification,
                                       approval_records)
           arg == [agent_id |-> agent_id, tools |-> request.tools,
                   validate_classification |-> validate_classification,
                   approval_records |-> approval_records]
           record == change_record(authorization_store, agent_id, request.tools,
                                   request.reason)
       IN IF errors # <<>>
            THEN /\ last' = Call("update_agent_tools", 0, arg, "none",
                                 Some([success |-> FALSE, validation_errors |-> errors]),
                                 "")
                 /\ UNCHANGED auth_vars
            ELSE /\ total_changes(authorization_history, AgentIds) < MaxChanges
                 /\ authorization_store' = DictSet(authorization_store, agent_id,
                                                   request.tools)
                 /\ authorization_history' = appended_history(authorization_history,
                                                              agent_id, record)
                 /\ last' = Call("update_agent_tools", 0, arg, "none",
                                 Some([success |-> TRUE,
                                       authorized_tools |-> request.tools,
                                       changes |-> [added |-> record.added,
                                                    removed |-> record.removed,
                                                    unchanged |-> record.unchanged],
                                       audit_events |-> audit_events(record)]),
                                 "Authorization updated")
    /\ UNCHANGED <<decision_registry, threads, rev_vars, int_vars, ev_vars>>

AuthNext ==
    \/ \E agent_id \in AgentIds, request \in UpdateRequests, options \in UpdateOptions :
          UpdateAgentTools(agent_id, request, options.validate_classification,
                           options.approval_records)
    \/ \E agent_id \in AgentIds, request \in UpdateRequests :
          SetAuthorizedTools(agent_id, request)
    \/ \E agent_id \in AgentIds : GetAuthorizedTools(agent_id)
    \/ \E agent_id \in AgentIds, k \in DOMAIN ToolIds :
          CheckToolAuthorized(agent_id, ToolIds[k])
    \/ \E mappings \in RefreshMappings : RefreshAuthorizationStore(mappings)

AuthSpec == Init /\ [][AuthNext]_vars

(* ------------------------ authorization claims ------------------------- *)

\* The tools of an agent, as a set.
CurrentTools(store, agent_id) == Elements(get_authorized_tools(store, agent_id))

\* C15: after set_authorized_tools(agent, T) the store holds T for the agent,
\* and the lists of the other agents are as before; get_authorized_tools called
\* right after returns T, check_tool_authorized called right after is TRUE iff
\* the tool is in T; an agent the store has no key for gets the empty list.
C15_WriteThenRead ==
    [][/\ last'.op = "set_authorized_tools"
            => /\ get_authorized_tools(authorization_store', last'.arg.agent_id)
                     = last'.arg.tools
               /\ \A agent \in AgentIds \ {last'.arg.agent_id} :
                     /\ (agent \in DOMAIN authorization_store')
                            = (agent \in DOMAIN authorization_store)
                     /\ get_authorized_tools(authorization_store', agent)
                            = get_authorized_tools(authorization_store, agent)
       /\ (last.op = "set_authorized_tools" /\ last'.op = "get_authorized_tools"
              /\ last'.arg.agent_id = last.arg.agent_id)
            => last'.err = "none" /\ last'.val = Some(last.arg.tools)
       /\ (last.op = "set_authorized_tools" /\ last'.op = "check_tool_authorized"
              /\ last'.arg.agent_id = last.arg.agent_id)
            => last'.val = Some(last'.arg.tool_id \in Elements(last.arg.tools))
       /\ (last'.op = "get_authorized_tools"
              /\ last'.arg.agent_id \notin DOMAIN authorization_store)
            => last'.err = "none" /\ last'.val = Some(<<>>)]_vars

\* C15's case: right after agent a was given t1 alone, t2 was refused for a
\* while agent b holds t2.
C15_Witness ==
    /\ last.op = "check_tool_authorized"
    /\ last.arg = [agent_id |-> "a", tool_id |-> "t2"]
    /\ last.val = Some(FALSE)
    /\ "a" \in DOMAIN authorization_store
    /\ authorization_store["a"] = <<"t1">>
    /\ "b" \in DOMAIN authorization_store
    /\ "t2" \in Elements(authorization_store["b"])

\* C16: set_authorized_tools(agent, T) over the previous tools P returns
\* added = T \ P, removed = P \ T, unchanged = P \cap T and appends that record
\* to the agent's history; called again with the same set it returns empty
\* added and removed and appends one record more.
C16_DiffIsSetDifference ==
    [][last'.op = "set_authorized_tools"
       => LET agent == last'.arg.agent_id
              record == last'.val[1]
              T == Elements(last'.arg.tools)
              P == CurrentTools(authorization_store, agent)
              before == DictGet(authorization_history, agent, <<>>)
              after == DictGet(authorization_history', agent, <<>>)
          IN /\ Elements(record.added) = T \ P
             /\ Elements(record.removed) = P \ T
             /\ Elements(record.unchanged) = P \cap T
             /\ Elements(record.added) \cap Elements(record.removed) = {}
             /\ Elements(record.added) \cap Elements(record.unchanged) = {}
             /\ Elements(record.removed) \cap Elements(record.unchanged) = {}
             /\ Elements(record.added) \cup Elements(record.unchanged) = T
             /\ Elements(record.removed) \cup Elements(record.unchanged) = P
             /\ after = Append(before, record)
             /\ (last.op = "set_authorized_tools" /\ last.arg.agent_id = agent
                    /\ Elements(last.arg.tools) = T)
                  => /\ record.added = <<>>
                     /\ record.removed = <<>>
                     /\ Len(after) = Len(before) + 1]_vars

\* C16's case: the second call with the same tools returned an empty diff and
\* the history of the agent holds two records.
C16_Witness ==
    /\ last.op = "set_authorized_tools"
    /\ last.val[1].added = <<>>
    /\ last.val[1].removed = <<>>
    /\ last.val[1].unchanged = <<"t1", "t2">>
    /\ Len(DictGet(authorization_history, last.arg.agent_id, <<>>)) = 2

\* The set the change records of a history give when they are applied in
\* order to tools: add added, drop removed.
RECURSIVE Replay(_, _, _)
Replay(history, i, tools) ==
    IF i > Len(history) THEN tools
    ELSE Replay(history, i + 1,
                (tools \cup Elements(history[i].added)) \ Elements(history[i].removed))

\* C17: the current tools of every agent are what the replay of the agent's
\* change records from the empty set gives.
C17_CurrentEqualsReplay ==
    \A agent \in AgentIds :
        CurrentTools(authorization_store, agent)
            = Replay(DictGet(authorization_history, agent, <<>>), 1, {})

\* The tool is classified SENSITIVE and the request holds no approval record for it.
Unapproved(tool_id, approval_records) ==
    /\ \E k \in DOMAIN ToolClassifications :
          /\ ToolClassifications[k].id = tool_id
          /\ ToolClassifications[k].classification = "SENSITIVE"
    /\ tool_id \notin DOMAIN approval_records

\* What update_agent_tools owes a request: refused with the unapproved tools
\* named and nothing changed when the request holds one, applied otherwise.
UpdateRefusedOrApplied ==
    LET arg == last'.arg
        response == last'.val[1]
        unapproved == {t \in Elements(arg.tools) : Unapproved(t, arg.approval_records)}
    IN IF unapproved # {}
         THEN /\ response.success = FALSE
              /\ "validation_errors" \in DOMAIN response
              /\ {response.validation_errors[k].tool_id :
                     k \in DOMAIN response.validation_errors} = unapproved
              /\ "audit_events" \notin DOMAIN response
              /\ authorization_store' = authorization_store
              /\ authorization_history' = authorization_history
         ELSE /\ response.success = TRUE
              /\ get_authorized_tools(authorization_store', arg.agent_id) = arg.tools
              /\ Len(DictGet(authorization_history', arg.agent_id, <<>>))
                    = Len(DictGet(authorization_history, arg.agent_id, <<>>)) + 1

\* C18 as stated: every update_agent_tools request that holds a SENSITIVE tool
\* without an approval record is refused with validation_errors naming the tool
\* and changes neither the tools nor the history, and builds no audit event;
\* a request whose SENSITIVE tools all have an approval record is applied.
C18_SensitiveNeedsApproval ==
    [][last'.op = "update_agent_tools" => UpdateRefusedOrApplied]_vars

\* C18 amended: the same of the requests made with validate_classification
\* true, the default.
C18_SensitiveNeedsApprovalWhenValidating ==
    [][(last'.op = "update_agent_tools" /\ last'.arg.validate_classification)
       => UpdateRefusedOrApplied]_vars

\* C18's case: a validating request for t1 and db without approval was refused
\* with db named, and the agent keeps the tools it had.
C18_Witness ==
    /\ last.op = "update_agent_tools"
    /\ last.arg.validate_classification
    /\ last.arg.tools = <<"t1", "db">>
    /\ last.arg.approval_records = <<>>
    /\ last.val[1].success = FALSE
    /\ last.val[1].validation_errors = <<[tool_id |-> "db", reason |-> "requires approval"]>>
    /\ last.arg.agent_id \in DOMAIN authorization_store
    /\ authorization_store[last.arg.agent_id] = <<"t2", "t1">>

(* ======================= integrity.py, evidence.py ===================== *)

EventTypes == {"tool_invocation"}
Outcomes == {"success"}
Timestamps == 1..MaxTime

\* str(n) of a natural number: its decimal text.
Digits == <<"0", "1", "2", "3", "4", "5", "6", "7", "8", "9">>

RECURSIVE str(_)
str(n) == IF n < 10 THEN Digits[n + 1] ELSE str(n \div 10) \o Digits[(n % 10) + 1]

\* The text of the n-th uuid4 the process draws, and of the isoformat() of the
\* instant t: distinct numbers give distinct texts.
uuid4(n) == "e" \o str(n)
isoformat(t) == "T" \o str(t)

\* "|".join(fields) from position i: the text of the fields with the separator
\* between them.
RECURSIVE join(_, _)
join(fields, i) ==
    IF i > Len(fields) THEN ""
    ELSE IF i = Len(fields) THEN fields[i]
    ELSE fields[i] \o "|" \o join(fields, i + 1)

\* compute_integrity_hash: the SHA-256 digest of the joined text, kept as the
\* joined text itself, so that two digests are equal iff the texts are.
compute_integrity_hash(fields) == join(fields, 1)

\* The hash_fields of construct_audit_event, read from an event.
hash_fields(event) ==
    <<uuid4(event.id), event.event_type, isoformat(event.timestamp),
      event.correlation_id, join(event.principal_chain, 1), event.outcome,
      str(event.latency_ms)>>

\* The event construct_audit_event returns at time timestamp. The id is a
\* fresh uuid4; the timestamp is the isoformat() of a UTC time, a text whose
\* order is the order of the times, kept as the time.
construct_audit_event(event_id, event_type, correlation_id, outcome, timestamp) ==
    LET event == [id |-> event_id,
                  event_type |-> event_type,
                  timestamp |-> timestamp,
                  correlation_id |-> correlation_id,
                  principal_chain |-> <<>>,
                  outcome |-> outcome,
                  latency_ms |-> 0]
    IN [k \in DOMAIN event \cup {"integrity_hash"} |->
           IF k = "integrity_hash" THEN compute_integrity_hash(hash_fields(event))
           ELSE event[k]]

\* The list comprehension of reconstruct_correlation_chain: the events of the
\* correlation id, in the order of the list, from position i.
RECURSIVE chain_filter(_, _, _)
chain_filter(events, i, correlation_id) ==
    IF i > Len(events) THEN <<>>
    ELSE IF events[i].correlation_id = correlation_id
        THEN <<events[i]>> \o chain_filter(events, i + 1, correlation_id)
    ELSE chain_filter(events, i + 1, correlation_id)

\* list.sort(key=timestamp) inserts event into a sorted list after the events
\* that are not later than it: the sort is stable.
RECURSIVE insert_by_timestamp(_, _)
insert_by_timestamp(sorted_events, event) ==
    IF sorted_events = <<>> THEN <<event>>
    ELSE IF Head(sorted_events).timestamp <= event.timestamp
        THEN <<Head(sorted_events)>> \o insert_by_timestamp(Tail(sorted_events), event)
    ELSE <<event>> \o sorted_events

\* reconstruct_correlation_chain that leaves the chain in the order of the store.
sort_by_timestamp_skipped(events, n) == SubSeq(events, 1, n)

\* chain_events.sort(key=timestamp) of the first n events of the list.
RECURSIVE sort_by_timestamp(_, _)
sort_by_timestamp(events, n) ==
    IF n = 0 THEN <<>>
    ELSE insert_by_timestamp(sort_by_timestamp(events, n - 1), events[n])

\* The integrity_failures of reconstruct_correlation_chain: the ids of the
\* events that carry an integrity_hash that is empty, from position i.
RECURSIVE integrity_failures(_, _)
integrity_failures(chain_events, i) ==
    IF i > Len(chain_events) THEN <<>>
    ELSE IF /\ "integrity_hash" \in DOMAIN chain_events[i]
            /\ chain_events[i].integrity_hash = ""
        THEN <<chain_events[i].id>> \o integrity_failures(chain_events, i + 1)
    ELSE integrity_failures(chain_events, i + 1)

\* t in text: the text t occurs in text.
text_in(t, text) ==
    \E i \in 1..(Len(text) - Len(t) + 1) : SubSeq(text, i, i + Len(t) - 1) = t

\* ", ".join(fields) from position i.
RECURSIVE join_comma(_, _)
join_comma(fields, i) ==
    IF i > Len(fields) THEN ""
    ELSE IF i = Len(fields) THEN fields[i]
    ELSE fields[i] \o ", " \o join_comma(fields, i + 1)

\* The default_sequences of detect_missing_events, in the order of the dict:
\* authorization, integration, revocation.
default_sequences ==
    << <<"authorization_decision">>,
       <<"integration_request", "integration_approval">>,
       <<"revocation_request", "revocation_propagated">> >>

\* The auto-detected expected sequence: the first default sequence, from
\* workflow i, one of whose types occurs in first_type; None when there is none.
RECURSIVE auto_detect_expected(_, _)
auto_detect_expected(first_type, i) ==
    IF i > Len(default_sequences) THEN None
    ELSE IF \E k \in DOMAIN default_sequences[i] :
               text_in(default_sequences[i][k], first_type)
        THEN default_sequences[i]
    ELSE auto_detect_expected(first_type, i + 1)

\* missing that holds every expected type, present or not.
missing_types_all_expected(expected, event_types) == expected

\* missing: the expected types that are not among event_types.
missing_types(expected, event_types) ==
    SelectSeq(expected,
              LAMBDA et : et \notin {event_types[k] : k \in DOMAIN event_types})

\* The duplicate alerts of a chain, from position i of its event types.
RECURSIVE duplicate_alerts(_, _, _)
duplicate_alerts(corr_id, event_types, i) ==
    IF i > Len(event_types) THEN <<>>
    ELSE (IF event_types[i] \in {event_types[k] : k \in 1..(i - 1)}
          THEN <<"Duplicate event type " \o event_types[i] \o " in chain " \o corr_id>>
          ELSE <<>>) \o duplicate_alerts(corr_id, event_types, i + 1)

\* One pass of the loop of detect_missing_events over the chain of corr_id.
chain_analysis(corr_id, chain_events, expected_sequence) ==
    LET event_types == [k \in DOMAIN chain_events |-> chain_events[k].event_type]
        expected == IF expected_sequence # None THEN expected_sequence
                    ELSE auto_detect_expected(event_types[1], 1)
        missing == IF expected # None THEN missing_types(expected, event_types) ELSE <<>>
        timestamps == [k \in DOMAIN chain_events |-> chain_events[k].timestamp]
    IN [missing |-> missing,
        incomplete_chains |->
            IF missing # <<>>
            THEN <<[correlation_id |-> corr_id, present_events |-> event_types,
                    missing_events |-> missing]>>
            ELSE <<>>,
        alerts |->
            (IF missing # <<>>
             THEN <<"Incomplete chain " \o corr_id \o ": missing " \o join_comma(missing, 1)>>
             ELSE <<>>)
            \o duplicate_alerts(corr_id, event_types, 1)
            \o (IF \E j, k \in DOMAIN timestamps : j < k /\ timestamps[j] > timestamps[k]
                THEN <<"Out-of-order timestamps in chain " \o corr_id>>
                ELSE <<>>)]

\* The keys of the chains dict after the first n events: the correlation ids
\* in the order of their first event.
RECURSIVE chain_ids(_, _)
chain_ids(events, n) ==
    IF n = 0 THEN <<>>
    ELSE LET ids == chain_ids(events, n - 1)
         IN IF events[n].correlation_id \in {ids[k] : k \in DOMAIN ids} THEN ids
            ELSE Append(ids, events[n].correlation_id)

\* The loop of detect_missing_events over the chains from position i of ids.
RECURSIVE chains_analysis(_, _, _, _)
chains_analysis(events, ids, i, expected_sequence) ==
    IF i > Len(ids)
    THEN [missing_events |-> 0, incomplete_chains |-> <<>>, alerts |-> <<>>]
    ELSE LET this == chain_analysis(ids[i], chain_filter(events, 1, ids[i]),
                                    expected_sequence)
             rest == chains_analysis(events, ids, i + 1, expected_sequence)
         IN [missing_events |-> Len(this.missing) + rest.missing_events,
             incomplete_chains |-> this.incomplete_chains \o rest.incomplete_chains,
             alerts |-> this.alerts \o rest.alerts]

detect_missing_events(events, expected_sequence) ==
    IF events = <<>>
    THEN [missing_events |-> 0, incomplete_chains |-> <<>>, alerts |-> <<>>]
    ELSE LET ids == chain_ids(events, Len(events))
             analysis == chains_analysis(events, ids, 1, expected_sequence)
         IN [missing_events |-> analysis.missing_events,
             incomplete_chains |-> analysis.incomplete_chains,
             total_chains |-> Len(ids),
             alerts |-> analysis.alerts]

\* The result of reconstruct_correlation_chain over events. An instant is one
\* millisecond, so latency_ms is the difference of the last and first instants.
reconstruct_correlation_chain(correlation_id, events) ==
    LET filtered == chain_filter(events, 1, correlation_id)
        chain_events == sort_by_timestamp(filtered, Len(filtered))
        timestamps == [k \in DOMAIN chain_events |-> chain_events[k].timestamp]
        missing_analysis == detect_missing_events(chain_events, None)
    IN [correlation_id |-> correlation_id,
        event_count |-> Len(chain_events),
        events |-> chain_events,
        event_types |-> [k \in DOMAIN chain_events |-> chain_events[k].event_type],
        timestamps |-> timestamps,
        latency_ms |-> IF Len(timestamps) >= 2
                       THEN timestamps[Len(timestamps)] - timestamps[1] ELSE 0,
        integrity_failures |-> integrity_failures(chain_events, 1),
        missing_events |-> missing_analysis.missing_events,
        alerts |-> missing_analysis.alerts,
        complete |-> missing_analysis.missing_events = 0]

(* --------------------------- evidence actions -------------------------- *)

\* An event constructed at some instant reaches the store; events reach it in
\* any order.
StoreEvent(event_type, correlation_id, outcome, timestamp) ==
    /\ Len(event_store) < MaxEvents
    /\ event_store' = Append(event_store,
                             construct_audit_event(Len(event_store) + 1, event_type,
                                                   correlation_id, outcome, timestamp))
    /\ last' = Call("store_event", Len(event_store) + 1, None, "none", None, "")
    /\ UNCHANGED <<decision_registry, threads, rev_vars, int_vars, auth_vars>>

\* The outcome of a stored event is rewritten and its integrity_hash is left
\* as it was.
TamperEvent(i) ==
    /\ i \in DOMAIN event_store
    /\ event_store[i].outcome # "deny"
    /\ event_store' = [event_store EXCEPT ![i].outcome = "deny"]
    /\ last' = Call("tamper_event", i, None, "none", None, "")
    /\ UNCHANGED <<decision_registry, threads, rev_vars, int_vars, auth_vars>>

ReconstructCorrelationChain(correlation_id) ==
    /\ last' = Call("reconstruct_correlation_chain", 0, correlation_id, "none",
                    Some(reconstruct_correlation_chain(correlation_id, event_store)), "")
    /\ UNCHANGED <<decision_registry, threads, rev_vars, int_vars, auth_vars, ev_vars>>

EvNext ==
    \/ \E event_type \in EventTypes, correlation_id \in CorrelationIds,
          outcome \in Outcomes, timestamp \in Timestamps :
          StoreEvent(event_type, correlation_id, outcome, timestamp)
    \/ \E i \in 1..MaxEvents : TamperEvent(i)
    \/ \E correlation_id \in CorrelationIds : ReconstructCorrelationChain(correlation_id)

EvSpec == Init /\ [][EvNext]_vars

(* --------------------------- evidence claims --------------------------- *)

\* The positions of the stored events of a correlation id.
ChainOf(correlation_id) ==
    {i \in DOMAIN event_store : event_store[i].correlation_id = correlation_id}

\* C19: reconstruct_correlation_chain(c, events) returns the events of
\* correlation id c, each once and no other, event_count being their number,
\* in ascending order of timestamp whatever their order in events.
C19_ChainIsFilteredAndSorted ==
    last.op = "reconstruct_correlation_chain"
    => LET result == last.val[1]
       IN /\ result.event_count = Cardinality(ChainOf(last.arg))
          /\ Len(result.events) = result.event_count
          /\ {result.events[k] : k \in DOMAIN result.events}
                = {event_store[i] : i \in ChainOf(last.arg)}
          /\ \A j, k \in DOMAIN result.events :
                j < k => result.events[j].timestamp <= result.events[k].timestamp

\* C19's case: two events of c1 stored later-first, with an event of c2 between
\* them, came back earlier-first.
C19_Witness ==
    /\ last.op = "reconstruct_correlation_chain"
    /\ last.arg = "c1"
    /\ Len(event_store) = 3
    /\ event_store[1].correlation_id = "c1" /\ event_store[1].timestamp = 2
    /\ event_store[2].correlation_id = "c2"
    /\ event_store[3].correlation_id = "c1" /\ event_store[3].timestamp = 1
    /\ last.val[1].events = <<event_store[3], event_store[1]>>

\* C20: reconstruct_correlation_chain reports in integrity_failures the ids of
\* exactly the events of the chain whose integrity_hash is not the hash of
\* their fields, and its events hold every event of the chain.
C20_TamperedEventsReported ==
    last.op = "reconstruct_correlation_chain"
    => LET result == last.val[1]
       IN /\ {result.integrity_failures[k] : k \in DOMAIN result.integrity_failures}
                = {event_store[i].id : i \in
                     {j \in ChainOf(last.arg) :
                         event_store[j].integrity_hash
                             # compute_integrity_hash(hash_fields(event_store[j]))}}
          /\ {result.events[k] : k \in DOMAIN result.events}
                = {event_store[i] : i \in ChainOf(last.arg)}

(* ============ evidence.py event constructors, api/evidence_handlers.py == *)

\* The event with its integrity_hash key, the digest of fields, added last.
with_integrity_hash(event, fields) ==
    [k \in DOMAIN event \cup {"integrity_hash"} |->
        IF k = "integrity_hash" THEN compute_integrity_hash(fields) ELSE event[k]]

\* The texts of a list of targets in sorted order.
sorted_targets(targets) == sorted({targets[k] : k \in DOMAIN targets})

\* The hash_fields of each constructor, read from the event it builds.
authorization_decision_hash_fields(event) ==
    <<uuid4(event.id), isoformat(event.timestamp), event.agent_id, event.tool_id,
      event.effect, event.reason>>

integration_request_hash_fields(event) ==
    <<uuid4(event.id), isoformat(event.timestamp), event.integration_id,
      event.integration_name, event.justification,
      join(sorted_targets(event.requested_targets), 1)>>

integration_approval_hash_fields(event) ==
    <<uuid4(event.id), isoformat(event.timestamp), event.integration_id,
      event.approved_by, join(sorted_targets(event.approved_targets), 1),
      IF event.expiry_days = None \/ event.expiry_days = Some(0) THEN "none"
      ELSE str(event.expiry_days[1])>>

integration_denial_hash_fields(event) ==
    <<uuid4(event.id), isoformat(event.timestamp), event.integration_id,
      event.target, event.reason>>

revocation_request_hash_fields(event) ==
    <<uuid4(event.id), isoformat(event.timestamp), event.revocation_id,
      event.subject_type, event.subject_id, event.scope, event.reason,
      event.initiated_by>>

revocation_propagated_hash_fields(event) ==
    <<uuid4(event.id), isoformat(event.timestamp), event.revocation_id,
      str(event.latency_ms), IF event.sla_met THEN "True" ELSE "False">>

revocation_access_denied_hash_fields(event) ==
    <<uuid4(event.id), isoformat(event.timestamp), event.subject_type,
      event.subject_id, event.attempted_action>>

construct_authorization_decision_event(event_id, timestamp, agent_id, tool_id, effect, reason, correlation_id, classification) ==
    LET event == [id |-> event_id, event_type |-> "authorization_decision",
                  timestamp |-> timestamp, correlation_id |-> correlation_id,
                  agent_id |-> agent_id, tool_id |-> tool_id, effect |-> effect,
                  reason |-> reason, classification |-> classification]
    IN with_integrity_hash(event, authorization_decision_hash_fields(event))

construct_integration_request_event(event_id, timestamp, integration_id, name, justification, requested_targets, correlation_id) ==
    LET event == [id |-> event_id, event_type |-> "integration_request",
                  timestamp |-> timestamp, correlation_id |-> correlation_id,
                  integration_id |-> integration_id, integration_name |-> name,
                  justification |-> justification,
                  requested_targets |-> requested_targets,
                  target_count |-> Len(requested_targets)]
    IN with_integrity_hash(event, integration_request_hash_fields(event))

construct_integration_approval_event(event_id, timestamp, integration_id, approved_by, approved_targets, expiry_days, correlation_id) ==
    LET event == [id |-> event_id, event_type |-> "integration_approval",
                  timestamp |-> timestamp, correlation_id |-> correlation_id,
                  integration_id |-> integration_id, approved_by |-> approved_by,
                  approved_targets |-> approved_targets,
                  target_count |-> Len(approved_targets),
                  expiry_days |-> expiry_days]
    IN with_integrity_hash(event, integration_approval_hash_fields(event))

construct_integration_denial_event(event_id, timestamp, integration_id, target, reason, correlation_id) ==
    LET event == [id |-> event_id, event_type |-> "integration_access_denied",
                  timestamp |-> timestamp, correlation_id |-> correlation_id,
                  integration_id |-> integration_id, target |-> target,
                  reason |-> reason]
    IN with_integrity_hash(event, integration_denial_hash_fields(event))

construct_revocation_request_event(event_id, timestamp, revocation_id, subject_type, subject_id, scope, reason, initiated_by, correlation_id) ==
    LET event == [id |-> event_id, event_type |-> "revocation_request",
                  timestamp |-> timestamp, correlation_id |-> correlation_id,
                  revocation_id |-> revocation_id, subject_type |-> subject_type,
                  subject_id |-> subject_id, scope |-> scope, reason |-> reason,
                  initiated_by |-> initiated_by]
    IN with_integrity_hash(event, revocation_request_hash_fields(event))

construct_revocation_propagated_event(event_id, timestamp, revocation_id, latency_ms, sla_met, correlation_id) ==
    LET event == [id |-> event_id, event_type |-> "revocation_propagated",
                  timestamp |-> timestamp, correlation_id |-> correlation_id,
                  revocation_id |-> revocation_id, latency_ms |-> latency_ms,
                  sla_met |-> sla_met]
    IN with_integrity_hash(event, revocation_propagated_hash_fields(event))

construct_revocation_access_denied_event(event_id, timestamp, subject_type, subject_id, attempted_action, correlation_id) ==
    LET event == [id |-> event_id, event_type |-> "revocation_access_denied",
                  timestamp |-> timestamp, correlation_id |-> correlation_id,
                  subject_type |-> subject_type, subject_id |-> subject_id,
                  attempted_action |-> attempted_action,
                  reason |-> "Subject has active revocation"]
    IN with_integrity_hash(event, revocation_access_denied_hash_fields(event))

\* The keys of an event in the order its constructor's dict literal inserts
\* them; integrity_hash is assigned afterwards and comes last.
event_keys(event_type) ==
    <<"id", "event_type", "timestamp", "correlation_id">> \o
    (CASE event_type = "authorization_decision" ->
              <<"agent_id", "tool_id", "effect", "reason", "classification">>
       [] event_type = "integration_request" ->
              <<"integration_id", "integration_name", "justification",
                "requested_targets", "target_count">>
       [] event_type = "integration_approval" ->
              <<"integration_id", "approved_by", "approved_targets", "target_count",
                "expiry_days">>
       [] event_type = "integration_access_denied" ->
              <<"integration_id", "target", "reason">>
       [] event_type = "revocation_request" ->
              <<"revocation_id", "subject_type", "subject_id", "scope", "reason",
                "initiated_by">>
       [] event_type = "revocation_propagated" ->
              <<"revocation_id", "latency_ms", "sla_met">>
       [] event_type = "revocation_access_denied" ->
              <<"subject_type", "subject_id", "attempted_action", "reason">>
       [] OTHER -> <<"principal_chain", "outcome", "latency_ms">>) \o
    <<"integrity_hash">>

\* isinstance(value, (str, int, float)) for the value of a key: a list is none
\* of them and neither is None; a bool is an int.
ListKeys == {"requested_targets", "approved_targets", "principal_chain"}
OptionalKeys == {"classification", "expiry_days"}
is_scalar(event, key) ==
    /\ key \notin ListKeys
    /\ key \in OptionalKeys => event[key] # None

\* str(value) of the scalar value of a key.
scalar_text(event, key) ==
    CASE key = "id" -> uuid4(event.id)
      [] key = "timestamp" -> isoformat(event.timestamp)
      [] key \in {"target_count", "latency_ms"} -> str(event[key])
      [] key = "expiry_days" -> str(event.expiry_days[1])
      [] key = "classification" -> event.classification[1]
      [] key = "sla_met" -> IF event.sla_met THEN "True" ELSE "False"
      [] OTHER -> event[key]

\* event.get(key, "") of a text field.
get_text(event, key) == IF key \in DOMAIN event THEN event[key] ELSE ""

\* The else branch of _extract_hash_fields: str(value) of every scalar value but
\* the integrity_hash, in the order of the keys, from position i.
RECURSIVE generic_fields(_, _, _)
generic_fields(event, keys, i) ==
    IF i > Len(keys) THEN <<>>
    ELSE IF keys[i] # "integrity_hash" /\ keys[i] \in DOMAIN event
            /\ is_scalar(event, keys[i])
        THEN <<scalar_text(event, keys[i])>> \o generic_fields(event, keys, i + 1)
    ELSE generic_fields(event, keys, i + 1)

_extract_hash_fields(event, event_type) ==
    <<uuid4(event.id), isoformat(event.timestamp)>> \o
    (CASE event_type = "authorization_decision" ->
              <<get_text(event, "agent_id"), get_text(event, "tool_id"),
                get_text(event, "effect"), get_text(event, "reason")>>
       [] event_type = "revocation_request" ->
              <<get_text(event, "revocation_id"), get_text(event, "subject_type"),
                get_text(event, "subject_id"), get_text(event, "scope"),
                get_text(event, "reason"), get_text(event, "initiated_by")>>
       [] event_type = "policy_decision" ->
              <<get_text(event, "subject_id"), get_text(event, "action"),
                get_text(event, "resource"), get_text(event, "effect")>>
       [] OTHER -> generic_fields(event, event_keys(event_type), 1))

\* The validation_results of validate_evidence_integrity, one for each event.
validate_evidence_integrity(events) ==
    [i \in DOMAIN events |->
        LET event == events[i]
            stored_hash == event.integrity_hash
            computed_hash ==
                compute_integrity_hash(_extract_hash_fields(event, event.event_type))
        IN IF stored_hash = ""
           THEN [event_id |-> event.id, status |-> "missing_hash", valid |-> FALSE]
           ELSE [event_id |-> event.id,
                 status |-> IF computed_hash = stored_hash THEN "valid" ELSE "tampered",
                 valid |-> computed_hash = stored_hash]]

(* ----------------------- integrity validation actions ------------------ *)

ConstructedEventTypes ==
    {"authorization_decision", "integration_request", "integration_approval",
     "integration_access_denied", "revocation_request", "revocation_propagated",
     "revocation_access_denied", "tool_invocation"}

\* The event a constructor returns at time timestamp with the id event_id.
constructed_event(event_type, event_id, timestamp) ==
    CASE event_type = "authorization_decision" ->
             construct_authorization_decision_event(
                 event_id, timestamp, "agent-1", "tool-1", "allow", "test", "c1", None)
      [] event_type = "integration_request" ->
             construct_integration_request_event(
                 event_id, timestamp, "int-1", "Test Integration", "Testing",
                 <<"t2", "t1">>, "c1")
      [] event_type = "integration_approval" ->
             construct_integration_approval_event(
                 event_id, timestamp, "int-1", "admin", <<"t1">>, Some(30), "c1")
      [] event_type = "integration_access_denied" ->
             construct_integration_denial_event(
                 event_id, timestamp, "int-1", "t2", "not approved", "c1")
      [] event_type = "revocation_request" ->
             construct_revocation_request_event(
                 event_id, timestamp, "rev-1", "user", "user-1", "user_access",
                 "incident", "admin", "c1")
      [] event_type = "revocation_propagated" ->
             construct_revocation_propagated_event(
                 event_id, timestamp, "rev-1", 5, TRUE, "c1")
      [] event_type = "revocation_access_denied" ->
             construct_revocation_access_denied_event(
                 event_id, timestamp, "user", "user-1", "invoke", "c1")
      [] OTHER -> construct_audit_event(event_id, event_type, "c1", "success", timestamp)

\* A constructor returns an event, which joins the list to validate.
ConstructEvent(event_type, timestamp) ==
    /\ Len(event_store) < MaxValEvents
    /\ event_store' = Append(event_store,
                             constructed_event(event_type, Len(event_store) + 1, timestamp))
    /\ last' = Call("construct_event", Len(event_store) + 1, None, "none", None, "")
    /\ UNCHANGED <<decision_registry, threads, rev_vars, int_vars, auth_vars>>

\* A field that the constructor hashed is rewritten, the integrity_hash kept.
TamperedKeys == {"agent_id", "integration_id", "revocation_id", "subject_id", "outcome"}

TamperField(i, key) ==
    /\ i \in DOMAIN event_store
    /\ key \in DOMAIN event_store[i]
    /\ event_store[i][key] # "tampered"
    /\ event_store' = [event_store EXCEPT ![i][key] = "tampered"]
    /\ last' = Call("tamper_field", i, None, "none", None, "")
    /\ UNCHANGED <<decision_registry, threads, rev_vars, int_vars, auth_vars>>

\* The stored hash is replaced by the text of zeros.
TamperHash(i) ==
    /\ i \in DOMAIN event_store
    /\ event_store[i].integrity_hash # "0"
    /\ event_store' = [event_store EXCEPT ![i].integrity_hash = "0"]
    /\ last' = Call("tamper_hash", i, None, "none", None, "")
    /\ UNCHANGED <<decision_registry, threads, rev_vars, int_vars, auth_vars>>

ValidateEvidenceIntegrity ==
    /\ last' = Call("validate_evidence_integrity", 0, None, "none",
                    Some(validate_evidence_integrity(event_store)), "")
    /\ UNCHANGED <<decision_registry, threads, rev_vars, int_vars, auth_vars, ev_vars>>

ValNext ==
    \/ \E event_type \in ConstructedEventTypes, timestamp \in Timestamps :
          ConstructEvent(event_type, timestamp)
    \/ \E i \in 1..MaxValEvents, key \in TamperedKeys : TamperField(i, key)
    \/ \E i \in 1..MaxValEvents : TamperHash(i)
    \/ ValidateEvidenceIntegrity

ValSpec == Init /\ [][ValNext]_vars

(* ----------------------- integrity validation claims ------------------- *)

\* The hash_fields of the constructor of the event's type over the event as it
\* is now.
constructor_hash_fields(event) ==
    CASE event.event_type = "authorization_decision" ->
             authorization_decision_hash_fields(event)
      [] event.event_type = "integration_request" ->
             integration_request_hash_fields(event)
      [] event.event_type = "integration_approval" ->
             integration_approval_hash_fields(event)
      [] event.event_type = "integration_access_denied" ->
             integration_denial_hash_fields(event)
      [] event.event_type = "revocation_request" ->
             revocation_request_hash_fields(event)
      [] event.event_type = "revocation_propagated" ->
             revocation_propagated_hash_fields(event)
      [] event.event_type = "revocation_access_denied" ->
             revocation_access_denied_hash_fields(event)
      [] OTHER -> hash_fields(event)

\* C21: validate_evidence_integrity reports an event of any constructor valid
\* when its stored hash is the digest of the constructor's hash fields over
\* the event (the event is as constructed) and tampered when a hashed field or
\* the stored hash was changed.
C21_UnmodifiedValidModifiedTampered ==
    last.op = "validate_evidence_integrity"
    => \A i \in DOMAIN event_store :
          last.val[1][i].status =
              IF event_store[i].integrity_hash
                    = compute_integrity_hash(constructor_hash_fields(event_store[i]))
              THEN "valid" ELSE "tampered"

(* ----------------------- workflow chain actions ------------------------ *)

ChainEventTypes ==
    {"authorization_decision", "integration_request", "integration_approval",
     "revocation_request", "revocation_propagated", "integration_access_denied"}

\* A handler's event of a workflow, constructed at time timestamp, reaches the
\* store. Its id is a uuid4: any id that no stored event has, whatever the
\* order in which the events arrive.
RecordEvent(event_type, event_id, timestamp) ==
    /\ Len(event_store) < MaxChainEvents
    /\ \A k \in DOMAIN event_store : event_store[k].id # event_id
    /\ event_store' = Append(event_store,
                             constructed_event(event_type, event_id, timestamp))
    /\ last' = Call("record_event", event_id, None, "none", None, "")
    /\ UNCHANGED <<decision_registry, threads, rev_vars, int_vars, auth_vars>>

ChainNext ==
    \/ \E event_type \in ChainEventTypes, event_id \in 1..MaxChainEvents,
          timestamp \in Timestamps :
          RecordEvent(event_type, event_id, timestamp)
    \/ \E correlation_id \in CorrelationIds : ReconstructCorrelationChain(correlation_id)

ChainSpec == Init /\ [][ChainNext]_vars

(* ----------------------- workflow chain claims ------------------------- *)

\* The workflows of spec 4.9 as the sets of their event types.
KnownWorkflows ==
    {{"authorization_decision"},
     {"integration_request", "integration_approval"},
     {"revocation_request", "revocation_propagated"}}

\* The expected types of the workflow of a type that are not among the types of
\* a chain, in the order of the workflow.
AbsentTypes(first_type, event_types) ==
    LET workflow == CHOOSE w \in KnownWorkflows : first_type \in w
        order == <<"authorization_decision", "integration_request",
                   "integration_approval", "revocation_request",
                   "revocation_propagated">>
    IN SelectSeq(order, LAMBDA t : /\ t \in workflow
                                   /\ t \notin {event_types[k] : k \in DOMAIN event_types})

\* C22: when the first event of the reconstructed chain belongs to a known
\* workflow, missing_events is the number of the workflow's types absent from
\* the chain, exactly one alert names them (none when there are none), and
\* complete holds iff missing_events = 0; a lone revocation_request gives
\* missing_events = 1 and complete = FALSE.
C22_MissingEventsOfWorkflow ==
    (/\ last.op = "reconstruct_correlation_chain"
     /\ last.val[1].event_count >= 1
     /\ \E w \in KnownWorkflows : last.val[1].event_types[1] \in w)
    => LET result == last.val[1]
           absent == AbsentTypes(result.event_types[1], result.event_types)
           naming == "Incomplete chain " \o result.correlation_id \o ": missing "
                        \o join_comma(absent, 1)
       IN /\ result.missing_events = Len(absent)
          /\ Cardinality({k \in DOMAIN result.alerts :
                             text_in("Incomplete chain", result.alerts[k])})
                = IF absent = <<>> THEN 0 ELSE 1
          /\ absent # <<>> => \E k \in DOMAIN result.alerts : result.alerts[k] = naming
          /\ result.complete = (result.missing_events = 0)
          /\ result.event_types = <<"revocation_request">>
                => result.missing_events = 1 /\ result.complete = FALSE

\* C22's case: a lone revocation_request was reported incomplete with the
\* alert naming revocation_propagated.
C22_Witness ==
    /\ last.op = "reconstruct_correlation_chain"
    /\ last.val[1].event_types = <<"revocation_request">>
    /\ last.val[1].missing_events = 1
    /\ last.val[1].alerts = <<"Incomplete chain c1: missing revocation_propagated">>
    /\ ~last.val[1].complete

\* The lists that hold the events of the store in another order.
Reorderings(events) ==
    {[k \in DOMAIN events |-> events[order[k]]] :
        order \in {f \in [DOMAIN events -> DOMAIN events] :
                      \A j, k \in DOMAIN events : j # k => f[j] # f[k]}}

\* C28: the events reconstruct_correlation_chain returns are in ascending
\* order of timestamp with equal timestamps in ascending order of event id,
\* and every other order of the same stored events reconstructs to the same
\* sequence.
C28_OrderIndependentOfInsertion ==
    last.op = "reconstruct_correlation_chain"
    => LET result == last.val[1]
       IN /\ \A j, k \in DOMAIN result.events :
                j < k => \/ result.events[j].timestamp < result.events[k].timestamp
                         \/ /\ result.events[j].timestamp = result.events[k].timestamp
                            /\ result.events[j].id < result.events[k].id
          /\ \A events \in Reorderings(event_store) :
                reconstruct_correlation_chain(last.arg, events).events = result.events

(* ----------------------- integrity.py actions -------------------------- *)

\* The texts a field may be: plain ones, the empty one, and ones that hold the
\* separator, as in test_special_characters.
FieldTexts == {"a", "b", "c", "", "|", "a|a"}

FieldLists == UNION {[1..n -> FieldTexts] : n \in 0..MaxFields}

ComputeIntegrityHash(fields) ==
    /\ last' = Call("compute_integrity_hash", 0, fields, "none",
                    Some(compute_integrity_hash(fields)), "")
    /\ UNCHANGED <<decision_registry, threads, rev_vars, int_vars, auth_vars, ev_vars>>

HashNext == \E fields \in FieldLists : ComputeIntegrityHash(fields)

HashSpec == Init /\ [][HashNext]_vars

(* ----------------------- integrity.py claims --------------------------- *)

Reversed(fields) == [k \in DOMAIN fields |-> fields[Len(fields) + 1 - k]]

\* C23: the digest of a list of at least two pairwise-distinct fields differs
\* from the digest of the reversed list, and the digest of a list is the same
\* whenever it is computed.
C23_OrderSensitive ==
    last.op = "compute_integrity_hash"
    => LET fields == last.arg
       IN /\ last.val[1] = compute_integrity_hash(fields)
          /\ (/\ Len(fields) >= 2
              /\ \A j, k \in DOMAIN fields : j # k => fields[j] # fields[k])
             => last.val[1] # compute_integrity_hash(Reversed(fields))

(* ======================= analyzer.py =================================== *)

Min(a, b) == IF a < b THEN a ELSE b
Max(a, b) == IF a > b THEN a ELSE b

\* A resource that counts as narrow: it holds a colon and no wildcard.
is_narrow_resource(res_str) == text_in(":", res_str) /\ ~text_in("*", res_str)

\* The counters one statement adds in the loop of compute_least_privilege_score.
\* Action and Resource are lists; a str is the list of that one text and an
\* absent key the empty list.
statement_counts(stmt) ==
    IF stmt.Effect # "Allow"
    THEN [total_statements |-> 0, wildcard_action_count |-> 0,
          wildcard_resource_count |-> 0, narrow_resource_count |-> 0]
    ELSE [total_statements |-> 1,
          wildcard_action_count |->
              Len(SelectSeq(stmt.Action, LAMBDA action : text_in("*", action))),
          wildcard_resource_count |->
              Len(SelectSeq(stmt.Resource, LAMBDA res_str : res_str = "*")),
          narrow_resource_count |->
              Len(SelectSeq(stmt.Resource,
                            LAMBDA res_str : res_str # "*" /\ is_narrow_resource(res_str)))]

add_counts(a, b) ==
    [k \in DOMAIN a |-> a[k] + b[k]]

\* The counters after the statements of one document from position i.
RECURSIVE statements_counts(_, _)
statements_counts(statements, i) ==
    IF i > Len(statements) THEN statement_counts([Effect |-> "Deny"])
    ELSE add_counts(statement_counts(statements[i]), statements_counts(statements, i + 1))

\* The counters after the documents from position i.
RECURSIVE documents_counts(_, _)
documents_counts(policy_documents, i) ==
    IF i > Len(policy_documents) THEN statement_counts([Effect |-> "Deny"])
    ELSE add_counts(statements_counts(policy_documents[i].Statement, 1),
                    documents_counts(policy_documents, i + 1))

\* The bonus that is the full NarrowBonus whenever a narrow resource exists.
narrow_bonus_all_or_nothing(narrow_resource_count, total_statements) ==
    IF narrow_resource_count > 0 THEN NarrowBonus * total_statements ELSE 0

\* min(10, narrow_ratio * 10) as a number of total_statements-ths.
narrow_bonus(narrow_resource_count, total_statements) ==
    Min(NarrowBonus * total_statements, narrow_resource_count * NarrowBonus)

\* compute_least_privilege_score: the score as the fraction <<num, den>>.
compute_least_privilege_score(policy_documents) ==
    LET c == documents_counts(policy_documents, 1)
        penalised == BaseScore - c.wildcard_action_count * WildcardActionPenalty
                               - c.wildcard_resource_count * WildcardResourcePenalty
        den == IF c.total_statements > 0 THEN c.total_statements ELSE 1
        score == IF c.total_statements > 0
                 THEN penalised * den
                         + narrow_bonus(c.narrow_resource_count, c.total_statements)
                 ELSE penalised
    IN <<Max(0, Min(BaseScore * den, score)), den>>

(* ----------------------- analyzer.py scoring actions ------------------- *)

\* A list of 21 wildcard actions, as an administrator policy holds.
ManyWildcardActions == [k \in 1..21 |-> "svc:*"]

AllowStatements ==
    [Effect : {"Allow"},
     Action : {<<"s3:GetObject">>, <<"s3:*", "ec2:*">>, ManyWildcardActions},
     Resource : {<<"*">>, <<"arn:aws:s3:::bucket/key">>,
                 <<"arn:aws:s3:::bucket/key", "arn:aws:s3:::bucket/other">>,
                 <<"bucket*">>}]

DenyStatement == [Effect |-> "Deny", Action |-> <<"s3:*">>, Resource |-> <<"*">>]

\* The documents: no statement, one statement, or two of the statements below.
PairedStatements ==
    {[Effect |-> "Allow", Action |-> <<"s3:*", "ec2:*">>,
      Resource |-> <<"arn:aws:s3:::bucket/key", "arn:aws:s3:::bucket/other">>],
     [Effect |-> "Allow", Action |-> <<"s3:GetObject">>, Resource |-> <<"bucket*">>]}

PolicyDocuments ==
    {[Statement |-> <<>>]}
    \cup {[Statement |-> <<s>>] : s \in AllowStatements \cup {DenyStatement}}
    \cup {[Statement |-> <<s, t>>] : s \in PairedStatements, t \in PairedStatements}

PolicyDocumentLists == UNION {[1..n -> PolicyDocuments] : n \in 0..MaxDocs}

\* The state in which a caller holds the policy documents of a principal.
ScoreInit ==
    /\ revocations = <<>> /\ rev_now = 0
    /\ integrations = <<>> /\ int_now = 0
    /\ authorization_store = <<>> /\ authorization_history = <<>>
    /\ event_store = <<>>
    /\ decision_registry = <<>>
    /\ threads = [t \in 1..MaxThreads |-> IdleThread]
    /\ \E policy_documents \in PolicyDocumentLists :
          last = Call("policy_documents", 0, policy_documents, "none", None, "")

ComputeLeastPrivilegeScore ==
    /\ last.op = "policy_documents"
    /\ last' = Call("compute_least_privilege_score", 0, last.arg, "none",
                    Some(compute_least_privilege_score(last.arg)), "")
    /\ UNCHANGED <<decision_registry, threads, rev_vars, int_vars, auth_vars, ev_vars>>

ScoreNext == ComputeLeastPrivilegeScore

ScoreSpec == ScoreInit /\ [][ScoreNext]_vars

(* ----------------------- analyzer.py scoring claims -------------------- *)

\* The Allow statements of the documents, in order, from document i.
RECURSIVE AllowStatementsOf(_, _)
AllowStatementsOf(policy_documents, i) ==
    IF i > Len(policy_documents) THEN <<>>
    ELSE SelectSeq(policy_documents[i].Statement, LAMBDA s : s.Effect = "Allow")
            \o AllowStatementsOf(policy_documents, i + 1)

\* The actions, and the resources, of a list of statements, from statement i.
RECURSIVE ActionsOf(_, _)
ActionsOf(statements, i) ==
    IF i > Len(statements) THEN <<>>
    ELSE statements[i].Action \o ActionsOf(statements, i + 1)

RECURSIVE ResourcesOf(_, _)
ResourcesOf(statements, i) ==
    IF i > Len(statements) THEN <<>>
    ELSE statements[i].Resource \o ResourcesOf(statements, i + 1)

\* The fraction <<num, den>> clamped to [0, 100].
Clamped(num, den) == <<Max(0, Min(100 * den, num)), den>>

SameFraction(a, b) == a[1] * b[2] = b[1] * a[2]

\* C24 as stated: the score is in [0, 100], 100 without an Allow statement,
\* and otherwise 100 - 5 * (wildcard actions of Allow statements)
\* - 10 * (Allow statements with a resource that is exactly *)
\* + 10 * (fraction of Allow statements with a narrow resource), clamped.
C24_ScoreByStatements ==
    last.op = "compute_least_privilege_score"
    => LET allow == AllowStatementsOf(last.arg, 1)
           n == Len(allow)
           wildcard_actions ==
               Len(SelectSeq(ActionsOf(allow, 1), LAMBDA a : text_in("*", a)))
           wildcard_statements ==
               Len(SelectSeq(allow, LAMBDA s : \E k \in DOMAIN s.Resource :
                                                  s.Resource[k] = "*"))
           narrow_statements ==
               Len(SelectSeq(allow, LAMBDA s : \E k \in DOMAIN s.Resource :
                                                  is_narrow_resource(s.Resource[k])))
           score == last.val[1]
       IN /\ 0 <= score[1] /\ score[1] <= 100 * score[2]
          /\ n = 0 => SameFraction(score, <<100, 1>>)
          /\ n > 0 => SameFraction(score,
                         Clamped((100 - 5 * wildcard_actions - 10 * wildcard_statements) * n
                                    + 10 * narrow_statements, n))

\* C24 amended: the penalty of 10 is per resource entry that is exactly *, and
\* the bonus is min(10, 10 * (narrow resource entries) / (Allow statements)).
C24_ScoreByResources ==
    last.op = "compute_least_privilege_score"
    => LET allow == AllowStatementsOf(last.arg, 1)
           n == Len(allow)
           wildcard_actions ==
               Len(SelectSeq(ActionsOf(allow, 1), LAMBDA a : text_in("*", a)))
           wildcard_resources ==
               Len(SelectSeq(ResourcesOf(allow, 1), LAMBDA r : r = "*"))
           narrow_resources ==
               Len(SelectSeq(ResourcesOf(allow, 1), LAMBDA r : is_narrow_resource(r)))
           score == last.val[1]
       IN /\ 0 <= score[1] /\ score[1] <= 100 * score[2]
          /\ n = 0 => SameFraction(score, <<100, 1>>)
          /\ n > 0 => SameFraction(score,
                         Clamped((100 - 5 * wildcard_actions - 10 * wildcard_resources) * n
                                    + Min(10 * n, 10 * narrow_resources), n))

\* C24's case: two wildcard actions and a wildcard resource in one Allow
\* statement, and a narrow resource in another, scored 100 - 10 - 10 + 5 = 85.
C24_Witness ==
    /\ last.op = "compute_least_privilege_score"
    /\ Len(last.arg) = 2
    /\ last.arg[1].Statement
          = <<[Effect |-> "Allow", Action |-> <<"s3:*", "ec2:*">>, Resource |-> <<"*">>]>>
    /\ last.arg[2].Statement
          = <<[Effect |-> "Allow", Action |-> <<"s3:GetObject">>,
               Resource |-> <<"arn:aws:s3:::bucket/key">>]>>
    /\ SameFraction(last.val[1], <<85, 1>>)

(* ======================= analyzer.py risk rating ======================= *)

\* The risk points of the wildcard actions with the bound 5 included.
wildcard_risk_from_five(wildcard_count) ==
    IF wildcard_count >= ManyWildcardsThreshold THEN 3
    ELSE IF wildcard_count > 0 THEN 1 ELSE 0

wildcard_risk(wildcard_count) ==
    IF wildcard_count > ManyWildcardsThreshold THEN 3
    ELSE IF wildcard_count > 0 THEN 1 ELSE 0

\* compute_risk_rating. The value of policy_summary is Some(dict), or None for
\* a value that is no dict; the value of least_privilege_score is Some(number),
\* or None for a value that is no number.
compute_risk_rating(principal) ==
    LET policy_summary == DictGet(principal, "policy_summary", Some(<<>>))
        is_dict == policy_summary # None
        wildcard_actions ==
            IF is_dict THEN DictGet(policy_summary[1], "wildcard_actions", <<>>)
            ELSE DictGet(principal, "wildcard_actions", <<>>)
        scope ==
            IF is_dict THEN DictGet(policy_summary[1], "resource_scope_wideness", "NARROW")
            ELSE DictGet(principal, "resource_scope_wideness", "NARROW")
        action_count == IF is_dict THEN DictGet(policy_summary[1], "action_count", 0) ELSE 0
        inactive == DictGet(principal, "inactive", FALSE)
        score_val == DictGet(principal, "least_privilege_score", Some(100))
        least_privilege_score == IF score_val # None THEN score_val[1] ELSE 100
        risk_score ==
            wildcard_risk(Len(wildcard_actions))
            + (IF scope = "BROAD" THEN 3 ELSE IF scope = "MODERATE" THEN 1 ELSE 0)
            + (IF action_count > HighActionCount THEN 2
               ELSE IF action_count > ModerateActionCount THEN 1 ELSE 0)
            + (IF inactive THEN 2 ELSE 0)
            + (IF least_privilege_score < LowScore THEN 2
               ELSE IF least_privilege_score < ModerateScore THEN 1 ELSE 0)
    IN IF risk_score >= HighRiskThreshold THEN "HIGH"
       ELSE IF risk_score >= ModerateRiskThreshold THEN "MODERATE"
       ELSE "LOW"

(* ----------------------- analyzer.py risk actions ---------------------- *)

\* The record of the fields that are present: options maps each key to
\* Some(value) or None.
record_of(options) ==
    [k \in {key \in DOMAIN options : options[key] # None} |-> options[k][1]]

WildcardLists == {[k \in 1..n |-> "svc:*"] : n \in {0, 1, MaxWildcards - 1, MaxWildcards}}

PolicySummaries ==
    {record_of([wildcard_actions |-> w, resource_scope_wideness |-> s, action_count |-> a]) :
        w \in {None} \cup {Some(l) : l \in WildcardLists},
        s \in {None, Some("NARROW"), Some("MODERATE"), Some("BROAD")},
        a \in {None, Some(10), Some(50), Some(51), Some(100), Some(101)}}

\* A principal with a policy summary, without the key, or with a value that
\* is no dict and the fields of the old structure at the top.
PrincipalRecords ==
    {record_of([policy_summary |-> p, inactive |-> i, least_privilege_score |-> l,
                wildcard_actions |-> None, resource_scope_wideness |-> None]) :
        p \in {None} \cup {Some(Some(d)) : d \in PolicySummaries},
        i \in {None, Some(TRUE), Some(FALSE)},
        l \in {None, Some(None), Some(Some(30)), Some(Some(50)), Some(Some(70)),
               Some(Some(80)), Some(Some(95))}}
    \cup
    {record_of([policy_summary |-> Some(None), inactive |-> i, least_privilege_score |-> l,
                wildcard_actions |-> w, resource_scope_wideness |-> s]) :
        i \in {None, Some(TRUE)},
        l \in {None, Some(Some(30))},
        w \in {None} \cup {Some(x) : x \in WildcardLists},
        s \in {None, Some("BROAD")}}

\* The state in which a caller holds a principal record of the catalog.
RiskInit ==
    /\ revocations = <<>> /\ rev_now = 0
    /\ integrations = <<>> /\ int_now = 0
    /\ authorization_store = <<>> /\ authorization_history = <<>>
    /\ event_store = <<>>
    /\ decision_registry = <<>>
    /\ threads = [t \in 1..MaxThreads |-> IdleThread]
    /\ \E principal \in PrincipalRecords :
          last = Call("principal", 0, principal, "none", None, "")

ComputeRiskRating ==
    /\ last.op = "principal"
    /\ last' = Call("compute_risk_rating", 0, last.arg, "none",
                    Some(compute_risk_rating(last.arg)), "")
    /\ UNCHANGED <<decision_registry, threads, rev_vars, int_vars, auth_vars, ev_vars>>

RiskNext == ComputeRiskRating

RiskSpec == RiskInit /\ [][RiskNext]_vars

(* ----------------------- analyzer.py risk claims ----------------------- *)

\* The signals of a principal record: those of its policy summary, of the
\* record itself when the summary is no dict, and the defaults when absent.
Signals(principal) ==
    LET summary == IF "policy_summary" \notin DOMAIN principal THEN <<>>
                   ELSE IF principal.policy_summary = None THEN principal
                   ELSE principal.policy_summary[1]
        in_summary == "policy_summary" \notin DOMAIN principal
                         \/ principal.policy_summary # None
    IN [wildcards |-> IF "wildcard_actions" \in DOMAIN summary
                      THEN Len(summary.wildcard_actions) ELSE 0,
        scope |-> IF "resource_scope_wideness" \in DOMAIN summary
                  THEN summary.resource_scope_wideness ELSE "NARROW",
        actions |-> IF in_summary /\ "action_count" \in DOMAIN summary
                    THEN summary.action_count ELSE 0,
        inactive |-> "inactive" \in DOMAIN principal /\ principal.inactive,
        score |-> IF "least_privilege_score" \in DOMAIN principal
                     /\ principal.least_privilege_score # None
                  THEN principal.least_privilege_score[1] ELSE 100]

RiskPoints(g) ==
    (CASE g.wildcards > 5 -> 3 [] g.wildcards \in 1..5 -> 1 [] OTHER -> 0)
    + (CASE g.scope = "BROAD" -> 3 [] g.scope = "MODERATE" -> 1 [] OTHER -> 0)
    + (CASE g.actions > 100 -> 2 [] g.actions \in 51..100 -> 1 [] OTHER -> 0)
    + (IF g.inactive THEN 2 ELSE 0)
    + (CASE g.score < 50 -> 2 [] g.score >= 50 /\ g.score < 80 -> 1 [] OTHER -> 0)

\* C25: compute_risk_rating returns, without raising, HIGH when the risk
\* points of the record are at least 6, MODERATE when they are 3 to 5 and LOW
\* otherwise, also for records lacking policy_summary, inactive or
\* least_privilege_score.
C25_RatingByRiskPoints ==
    last.op = "compute_risk_rating"
    => LET points == RiskPoints(Signals(last.arg))
       IN /\ last.err = "none"
          /\ last.val[1] \in {"LOW", "MODERATE", "HIGH"}
          /\ last.val[1] = "HIGH" <=> points >= 6
          /\ last.val[1] = "MODERATE" <=> points \in 3..5
          /\ last.val[1] = "LOW" <=> points < 3

\* C25's case: a record lacking inactive and least_privilege_score, whose
\* summary lists six wildcard actions and a BROAD scope and lacks action_count,
\* was rated HIGH.
C25_Witness ==
    /\ last.op = "compute_risk_rating"
    /\ DOMAIN last.arg = {"policy_summary"}
    /\ last.arg.policy_summary # None
    /\ DOMAIN last.arg.policy_summary[1] = {"wildcard_actions", "resource_scope_wideness"}
    /\ Len(last.arg.policy_summary[1].wildcard_actions) = 6
    /\ last.arg.policy_summary[1].resource_scope_wideness = "BROAD"
    /\ last.val[1] = "HIGH"

(* ============ integrations.py called from concurrent threads =========== *)

\* The module holds no lock: a thread may be suspended between any two
\* statements of approve_integration. A statement that reads or writes the
\* registry is one step; integration.update() is one call on a dict.

\* The approver a thread acts for.
ThreadApprover(t) == "approver-" \o str(t)


\* A thread enters approve_integration.
ApproveBegin(t, integration_id, approved_targets, expiry_days) ==
    /\ threads[t].pc = "idle"
    /\ integration_id \in DOMAIN integrations
    /\ threads' = [threads EXCEPT ![t] =
          [pc |-> "approve_check",
           call |-> Some([integration_id |-> integration_id,
                          approved_targets |-> approved_targets,
                          expiry_days |-> expiry_days,
                          approved_by |-> ThreadApprover(t)]),
           local |-> None, result |-> "none"]]
    /\ UNCHANGED <<decision_registry, rev_vars, int_vars, auth_vars, ev_vars, last>>

\* The thread looks the record up and tests its status; it raises or goes on.
ApproveCheck(t) ==
    /\ threads[t].pc = "approve_check"
    /\ LET call == threads[t].call[1]
           err == approve_integration_error(integrations, call.integration_id)
       IN IF err # "none"
            THEN /\ threads' = [threads EXCEPT ![t].pc = "done", ![t].result = err]
                 /\ last' = Call("approve_integration", call.integration_id, None, err,
                                 None, "")
            ELSE /\ threads' = [threads EXCEPT ![t].pc = "approve_update"]
                 /\ UNCHANGED last
    /\ UNCHANGED <<decision_registry, rev_vars, int_vars, auth_vars, ev_vars>>

\* The thread reads the clock, updates the record and returns.
ApproveUpdate(t) ==
    /\ threads[t].pc = "approve_update"
    /\ LET call == threads[t].call[1]
       IN /\ integrations' = [integrations EXCEPT ![call.integration_id] =
                 approved_integration(@, call.approved_targets, call.expiry_days,
                                      call.approved_by, int_now)]
          /\ threads' = [threads EXCEPT ![t].pc = "done", ![t].result = "none",
                                        ![t].local = Some([timestamp |-> int_now])]
          /\ last' = Call("approve_integration", call.integration_id, None, "none", None,
                          "Integration approved")
    /\ UNCHANGED <<decision_registry, int_now, rev_vars, auth_vars, ev_vars>>

ConcApproveNext ==
    \/ \E payload \in IntegrationPayloads : RequestIntegration(payload)
    \/ \E t \in 1..MaxThreads, integration_id \in IntegrationIds,
          approved_targets \in {<<"Data">>, <<"Data", "other">>},
          expiry_days \in {None, Some(1)} :
          ApproveBegin(t, integration_id, approved_targets, expiry_days)
    \/ \E t \in 1..MaxThreads : ApproveCheck(t)
    \/ \E t \in 1..MaxThreads : ApproveUpdate(t)
    \/ IntTick

ConcApproveSpec == Init /\ [][ConcApproveNext]_vars

\* C26: of the approve_integration calls on one integration that have
\* returned or raised, exactly one succeeded, every other raised the
\* not-pending error, and the record's approved_targets, approved_by,
\* approved_at and expires_at are those of the call that succeeded.
C26_ExactlyOneApprovalSucceeds ==
    \A i \in DOMAIN integrations :
        LET finished == {t \in DOMAIN threads :
                            /\ threads[t].pc = "done"
                            /\ threads[t].call[1].integration_id = i}
            succeeded == {t \in finished : threads[t].result = "none"}
        IN /\ finished # {} => Cardinality(succeeded) = 1
           /\ \A t \in finished \ succeeded : threads[t].result = "not_pending"
           /\ \A t \in succeeded :
                 LET call == threads[t].call[1]
                     timestamp == threads[t].local[1].timestamp
                 IN /\ integrations[i].approved_targets = call.approved_targets
                    /\ integrations[i].approved_by = Some(call.approved_by)
                    /\ integrations[i].approved_at = Some(timestamp)
                    /\ integrations[i].expires_at
                          = IF call.expiry_days = None THEN None
                            ELSE Some(timestamp + call.expiry_days[1])

(* ============ authorization.py called from concurrent threads ========== *)

\* The module holds no lock: a thread may be suspended between any two
\* statements of set_authorized_tools. Each statement that reads or writes
\* the store or the history is one step.

\* A thread enters set_authorized_tools.
SetBegin(t, agent_id, request) ==
    /\ threads[t].pc = "idle"
    /\ threads' = [threads EXCEPT ![t] =
          [pc |-> "set_read",
           call |-> Some([agent_id |-> agent_id, tools |-> request.tools,
                          reason |-> request.reason]),
           local |-> None, result |-> "none"]]
    /\ UNCHANGED <<decision_registry, rev_vars, int_vars, auth_vars, ev_vars, last>>

\* previous_tools = _authorization_store.get(agent_id, []); the differential
\* is computed from it.
SetRead(t) ==
    /\ threads[t].pc = "set_read"
    /\ LET call == threads[t].call[1]
           previous_tools == DictGet(authorization_store, call.agent_id, <<>>)
       IN threads' = [threads EXCEPT
             ![t].pc = "set_write",
             ![t].local = Some(change_record(DictSet(<<>>, call.agent_id, previous_tools),
                                             call.agent_id, call.tools, call.reason))]
    /\ UNCHANGED <<decision_registry, rev_vars, int_vars, auth_vars, ev_vars, last>>

\* _authorization_store[agent_id] = tool_list
SetWrite(t) ==
    /\ threads[t].pc = "set_write"
    /\ LET call == threads[t].call[1]
       IN authorization_store' = DictSet(authorization_store, call.agent_id, call.tools)
    /\ threads' = [threads EXCEPT ![t].pc = "set_history"]
    /\ UNCHANGED <<decision_registry, rev_vars, int_vars, authorization_history, ev_vars, last>>

\* if agent_id not in _authorization_history
SetHistoryCheck(t) ==
    /\ threads[t].pc = "set_history"
    /\ threads' = [threads EXCEPT ![t].pc =
          IF threads[t].call[1].agent_id \notin DOMAIN authorization_history
          THEN "set_history_init" ELSE "set_append"]
    /\ UNCHANGED <<decision_registry, rev_vars, int_vars, auth_vars, ev_vars, last>>

\* _authorization_history[agent_id] = []
SetHistoryInit(t) ==
    /\ threads[t].pc = "set_history_init"
    /\ authorization_history' =
          DictSet(authorization_history, threads[t].call[1].agent_id, <<>>)
    /\ threads' = [threads EXCEPT ![t].pc = "set_append"]
    /\ UNCHANGED <<decision_registry, rev_vars, int_vars, authorization_store, ev_vars, last>>

\* _authorization_history[agent_id].append(change_record), and the return.
SetAppend(t) ==
    /\ threads[t].pc = "set_append"
    /\ LET call == threads[t].call[1]
           record == threads[t].local[1]
       IN /\ authorization_history' =
                appended_history(authorization_history, call.agent_id, record)
          /\ last' = Call("set_authorized_tools", 0,
                          [agent_id |-> call.agent_id, tools |-> call.tools],
                          "none", Some(record), "Authorization updated")
    /\ threads' = [threads EXCEPT ![t].pc = "done"]
    /\ UNCHANGED <<decision_registry, rev_vars, int_vars, authorization_store, ev_vars>>

ConcSetNext ==
    \/ \E t \in 1..MaxThreads, agent_id \in AgentIds, request \in UpdateRequests :
          SetBegin(t, agent_id, request)
    \/ \E t \in 1..MaxThreads : SetRead(t)
    \/ \E t \in 1..MaxThreads : SetWrite(t)
    \/ \E t \in 1..MaxThreads : SetHistoryCheck(t)
    \/ \E t \in 1..MaxThreads : SetHistoryInit(t)
    \/ \E t \in 1..MaxThreads : SetAppend(t)

ConcSetSpec == Init /\ [][ConcSetNext]_vars

\* The orders in which the threads of a set may be taken.
Orders(S) ==
    {order \in [1..Cardinality(S) -> S] :
        \A j, k \in 1..Cardinality(S) : j # k => order[j] # order[k]}

\* The store and the history after the calls of the first n threads of order
\* were executed one at a time from empty tables.
RECURSIVE OneAtATime(_, _)
OneAtATime(order, n) ==
    IF n = 0 THEN [store |-> <<>>, history |-> <<>>]
    ELSE LET before == OneAtATime(order, n - 1)
             call == threads[order[n]].call[1]
         IN [store |-> DictSet(before.store, call.agent_id, call.tools),
             history |-> appended_history(before.history, call.agent_id,
                            change_record(before.store, call.agent_id, call.tools,
                                          call.reason))]

\* C27: once the concurrent set_authorized_tools calls have returned, the store
\* and the history are those of the calls executed one at a time in some
\* order: the final tools are those of the last call, every change record is
\* the diff against the tools of the preceding call, and none is lost.
C27_CallsTakeEffectOneAtATime ==
    (\A t \in DOMAIN threads : threads[t].pc \in {"idle", "done"})
    => LET finished == {t \in DOMAIN threads : threads[t].pc = "done"}
       IN \E order \in Orders(finished) :
             LET run == OneAtATime(order, Cardinality(finished))
             IN /\ authorization_store = run.store
                /\ authorization_history = run.history

(* ------------- api/decision_handlers.py: the decision registry --------- *)

\* str.lower() of the upper-case characters.
lower_table ==
    LET upper == "ABCDEFGHIJKLMNOPQRSTUVWXYZ"
        lowered == "abcdefghijklmnopqrstuvwxyz"
    IN [c \in {SubSeq(upper, i, i) : i \in 1..Len(upper)} |->
           LET i == CHOOSE i \in 1..Len(upper) : SubSeq(upper, i, i) = c
           IN SubSeq(lowered, i, i)]

\* str.lower() of one character.
lower_char(c) == IF c \in DOMAIN lower_table THEN lower_table[c] ELSE c

\* str.lower().
RECURSIVE lower(_)
lower(text) ==
    IF text = "" THEN ""
    ELSE lower_char(SubSeq(text, 1, 1)) \o lower(SubSeq(text, 2, Len(text)))

\* The decision record_decision builds. The clock of the decision handlers
\* counts hours.
new_decision(decision_id, timestamp, subject_type, subject_id, action, resource, effect, policy_reference, correlation_id, reason) ==
    [id |-> decision_id,
     timestamp |-> timestamp,
     subject_type |-> subject_type,
     subject_id |-> subject_id,
     action |-> action,
     resource |-> resource,
     effect |-> lower(effect),
     policy_reference |-> policy_reference,
     correlation_id |-> correlation_id]
    @@ (IF reason # None /\ reason # Some("") THEN [reason |-> reason[1]] ELSE <<>>)

\* _decision_registry[:] = _decision_registry[-10000:] once the registry
\* holds more than RegistryLimit decisions.
trimmed_registry(registry) ==
    IF Len(registry) > RegistryLimit
    THEN SubSeq(registry, Len(registry) - RegistryLimit + 1, Len(registry))
    ELSE registry

\* The list comprehension [d for d in decisions if ...] from position i, kept
\* being the positions of the decisions that pass its test.
RECURSIVE filter_decisions(_, _, _)
filter_decisions(decisions, i, kept) ==
    IF i > Len(decisions) THEN <<>>
    ELSE (IF i \in kept THEN <<decisions[i]>> ELSE <<>>)
         \o filter_decisions(decisions, i + 1, kept)

\* The filters of list_decisions, applied in the order of the code; a filter
\* that is None or empty is skipped.
matching_decisions(registry, query, now) ==
    LET cutoff == now - query.hours_back
        by_subject(d) == query.subject_id \in {None, Some("")}
                         \/ d.subject_id = query.subject_id[1]
        by_effect(d) == query.effect \in {None, Some("")}
                        \/ d.effect = lower(query.effect[1])
        by_resource(d) == query.resource_pattern \in {None, Some("")}
                          \/ text_in(lower(query.resource_pattern[1]), lower(d.resource))
        by_action(d) == query.action_pattern \in {None, Some("")}
                        \/ text_in(lower(query.action_pattern[1]), lower(d.action))
        in_window(d) == d.timestamp >= cutoff
        keep(d) == by_subject(d) /\ by_effect(d) /\ by_resource(d) /\ by_action(d)
                   /\ in_window(d)
    IN filter_decisions(registry, 1, {k \in DOMAIN registry : keep(registry[k])})

\* list.sort(key=timestamp, reverse=True) inserts decision into a list sorted
\* newest first after the decisions that are not earlier than it: a reverse
\* sort keeps the order of equal keys.
RECURSIVE insert_newest_first(_, _)
insert_newest_first(sorted_decisions, decision) ==
    IF sorted_decisions = <<>> THEN <<decision>>
    ELSE IF Head(sorted_decisions).timestamp >= decision.timestamp
        THEN <<Head(sorted_decisions)>>
             \o insert_newest_first(Tail(sorted_decisions), decision)
    ELSE <<decision>> \o sorted_decisions

\* limited_decisions.sort(key=timestamp, reverse=True) of the first n decisions.
RECURSIVE sort_newest_first(_, _)
sort_newest_first(decisions, n) ==
    IF n = 0 THEN <<>>
    ELSE insert_newest_first(sort_newest_first(decisions, n - 1), decisions[n])

\* decisions[:limit] for a limit that is not negative.
first_decisions(decisions, limit) ==
    SubSeq(decisions, 1, Min(limit, Len(decisions)))

\* agg_map of list_decisions: the number of decisions for each value of the
\* field aggregate_by.
aggregation(decisions, aggregate_by) ==
    [key \in {decisions[k][aggregate_by] : k \in DOMAIN decisions} |->
        Cardinality({k \in DOMAIN decisions : decisions[k][aggregate_by] = key})]

\* The response of list_decisions at the time now.
list_decisions(registry, query, now) ==
    IF query.effect \notin {None, Some("")}
       /\ lower(query.effect[1]) \notin {"allow", "deny"}
    THEN [error |-> "Invalid effect value. Must be 'allow' or 'deny'", status |-> 400]
    ELSE LET decisions == matching_decisions(registry, query, now)
             limited == first_decisions(decisions, query.limit)
             limited_decisions == sort_newest_first(limited, Len(limited))
         IN [decisions |-> limited_decisions,
             count |-> Len(limited_decisions),
             total_matching |-> Len(decisions),
             filters |-> [subject_id |-> query.subject_id,
                          effect |-> query.effect,
                          hours_back |-> query.hours_back,
                          resource_pattern |-> query.resource_pattern,
                          action_pattern |-> query.action_pattern],
             status |-> 200]
            @@ (IF /\ query.aggregate_by # None
                   /\ query.aggregate_by[1] \in
                         {"subject_id", "effect", "resource", "action"}
                THEN [aggregations |-> aggregation(decisions, query.aggregate_by[1])]
                ELSE <<>>)

\* get_decisions_for_correlation: the decisions of the trace, sorted by
\* decisions.sort(key=timestamp), the stable sort of the chain reconstructor.
get_decisions_for_correlation(registry, correlation_id) ==
    LET decisions ==
            filter_decisions(registry, 1,
                {k \in DOMAIN registry : registry[k].correlation_id = correlation_id})
    IN sort_by_timestamp(decisions, Len(decisions))

\* The event _query_events_by_correlation makes of a decision.
policy_decision_event(decision) ==
    [id |-> decision.id,
     event_type |-> "policy_decision",
     timestamp |-> decision.timestamp,
     correlation_id |-> decision.correlation_id,
     subject_id |-> decision.subject_id,
     effect |-> decision.effect,
     resource |-> decision.resource]

\* evidence._query_events_by_correlation: the events of the event store with
\* the correlation id, then the decisions of the registry with it.
_query_events_by_correlation(correlation_id, store, registry) ==
    LET decisions == get_decisions_for_correlation(registry, correlation_id)
    IN chain_filter(store, 1, correlation_id)
       \o [k \in DOMAIN decisions |-> policy_decision_event(decisions[k])]

(* ---------------------- decision handler actions ----------------------- *)

\* The callers of record_decision: a subject, the effect of the decision and
\* the reason given for it.
DecisionInputs ==
    {[subject_id |-> "agent-1", effect |-> "allow", reason |-> None],
     [subject_id |-> "agent-1", effect |-> "DENY", reason |-> Some("over quota")],
     [subject_id |-> "agent-2", effect |-> "Allow", reason |-> Some("")]}

\* record_decision. datetime.now(UTC) does not run backwards: the timestamp is
\* not earlier than that of the last decision recorded.
RecordDecision(subject_id, effect, correlation_id, reason, timestamp) ==
    /\ Len(decision_registry) < MaxDecisions
    /\ decision_registry # <<>> =>
          timestamp >= decision_registry[Len(decision_registry)].timestamp
    /\ LET decision_id == IF decision_registry = <<>> THEN 1
                          ELSE decision_registry[Len(decision_registry)].id + 1
           decision == new_decision(decision_id, timestamp, "agent", subject_id,
                                    "invoke", "tool-a", effect, "policy-1",
                                    correlation_id, reason)
       IN /\ decision_registry' = trimmed_registry(Append(decision_registry, decision))
          /\ last' = Call("record_decision", decision_id, None, "none", Some(decision),
                          "Recorded policy decision")
    /\ UNCHANGED <<threads, rev_vars, int_vars, auth_vars, ev_vars>>

DefaultQuery ==
    [subject_id |-> None, effect |-> None, hours_back |-> 24, limit |-> DefaultLimit,
     resource_pattern |-> None, action_pattern |-> None, aggregate_by |-> None]

\* The queries handed to list_decisions: the default one, and those that set
\* the limit with the subject and effect filters, the window, a pattern or
\* the aggregation.
ListQueries ==
    {[DefaultQuery EXCEPT !.limit = limit, !.subject_id = subject_id, !.effect = effect] :
        limit \in (1..MaxLimit) \cup {DefaultLimit},
        subject_id \in {None, Some("agent-1")},
        effect \in {None, Some("Allow"), Some("maybe")}}
    \cup {[DefaultQuery EXCEPT !.limit = limit, !.hours_back = 0] : limit \in 1..MaxLimit}
    \cup {[DefaultQuery EXCEPT !.resource_pattern = Some("TOOL")],
          [DefaultQuery EXCEPT !.action_pattern = Some("read")]}
    \cup {[DefaultQuery EXCEPT !.limit = 1, !.aggregate_by = aggregate_by] :
            aggregate_by \in {Some("effect"), Some("policy")}}

\* list_decisions at the time now, which is not earlier than the last decision.
ListDecisions(query, now) ==
    /\ decision_registry # <<>> =>
          now >= decision_registry[Len(decision_registry)].timestamp
    /\ LET response == list_decisions(decision_registry, query, now)
       IN last' = Call("list_decisions", now, query,
                       IF response.status = 200 THEN "none" ELSE response.error,
                       Some(response), "")
    /\ UNCHANGED <<decision_registry, threads, rev_vars, int_vars, auth_vars, ev_vars>>

DecNext ==
    \/ \E input \in DecisionInputs, timestamp \in Timestamps :
          RecordDecision(input.subject_id, input.effect, "c1", input.reason, timestamp)
    \/ \E query \in ListQueries, now \in Timestamps : ListDecisions(query, now)

DecSpec == Init /\ [][DecNext]_vars

(* ----------------------- decision handler claims ----------------------- *)

\* The positions of the decisions of the registry that match the query of the
\* last call, made at the time last.id.
MatchingOfLast ==
    matching_decisions(decision_registry, last.arg, last.id)

\* C30: list_decisions with more matching decisions than limit returns the
\* limit most recent matching decisions, newest first: count <= limit,
\* total_matching is the number of matches before the limit, the decisions
\* returned are limit of the matches in descending order of timestamp, and no
\* match left out is more recent than a match returned.
C30_LimitMostRecentNewestFirst ==
    (/\ last.op = "list_decisions"
     /\ last.err = "none"
     /\ Len(MatchingOfLast) > last.arg.limit)
    => LET response == last.val[1]
           returned == response.decisions
           matches == MatchingOfLast
       IN /\ response.count <= last.arg.limit
          /\ response.count = Len(returned)
          /\ response.total_matching = Len(matches)
          /\ Len(returned) = last.arg.limit
          /\ \A k \in DOMAIN returned : \E m \in DOMAIN matches : matches[m] = returned[k]
          /\ \A j, k \in DOMAIN returned :
                j < k => returned[j].timestamp >= returned[k].timestamp
          /\ \A m \in DOMAIN matches :
                (\A k \in DOMAIN returned : returned[k] # matches[m])
                => \A k \in DOMAIN returned :
                      returned[k].timestamp >= matches[m].timestamp

(* ------------------ api/evidence_handlers.py: traces ------------------- *)

\* The response of reconstruct_trace: reconstruct_correlation_chain is called
\* without events, so it queries the event store and the decision registry.
reconstruct_trace(correlation_id, store, registry) ==
    LET reconstruction ==
            reconstruct_correlation_chain(correlation_id,
                _query_events_by_correlation(correlation_id, store, registry))
    IN [reconstruction |-> reconstruction,
        integrity_status |-> IF reconstruction.integrity_failures = <<>>
                             THEN "verified" ELSE "failed",
        status |-> 200]

ReconstructTrace(correlation_id) ==
    /\ last' = Call("reconstruct_trace", 0, correlation_id, "none",
                    Some(reconstruct_trace(correlation_id, event_store,
                                           decision_registry)), "")
    /\ UNCHANGED <<decision_registry, threads, rev_vars, int_vars, auth_vars, ev_vars>>

\* The integration handlers, the recording of decisions and the trace handler.
\* The handlers build their audit event with evidence.construct_*_event and
\* hand its id to the logger; they write to no store.
TraceNext ==
    \/ \E payload \in RequestPayloads : HandleIntegrationRequest(payload)
    \/ \E integration_id \in 1..MaxApiIntegrations, payload \in ApprovalPayloads :
          HandleIntegrationApproval(integration_id, payload)
    \/ \E correlation_id \in CorrelationIds, timestamp \in Timestamps :
          RecordDecision("agent-1", "allow", correlation_id, None, timestamp)
    \/ \E correlation_id \in CorrelationIds : ReconstructTrace(correlation_id)

TraceSpec == Init /\ [][TraceNext]_vars

(* ----------------------------- trace claims ---------------------------- *)

\* The event type of the audit event a handler emits.
EmittedEventType(op) ==
    IF op = "handle_integration_request" THEN "integration_request"
    ELSE "integration_approval"

\* C29: every audit event a handler emits is recoverable by its trace id: when
\* a handler call has succeeded and returned correlation_id c and the trace of
\* c is reconstructed next from the registered stores, the chain contains the
\* event the call emitted, so event_count >= 1.
C29_EmittedEventRecoverable ==
    [][(/\ last.op \in {"handle_integration_request", "handle_integration_approval"}
        /\ last.err = "none"
        /\ last'.op = "reconstruct_trace"
        /\ last'.arg = last.val[1].correlation_id)
       => LET chain == last'.val[1].reconstruction
          IN /\ chain.event_count >= 1
             /\ \E k \in DOMAIN chain.events :
                   /\ chain.events[k].event_type = EmittedEventType(last.op)
                   /\ chain.events[k].correlation_id = last'.arg]_vars
====
